---- MODULE Spec2Model ----
(***************************************************************************)
(* Finalized log index (crates/finalized-log-index).                       *)
(*                                                                         *)
(* The metadata store is the in-memory adapter: one versioned record per   *)
(* key, one map per key namespace.  The blob store holds the chunk blobs.  *)
(* Ingest, maintenance and queries are translated handler by handler; a    *)
(* write fault is the test suite's injector: the k-th put of a call fails  *)
(* with a Backend error before it reaches the store.  Every request is     *)
(* served by a service constructed over the stores, as after a restart.    *)
(*                                                                         *)
(* Spec and SpecQuery run the engines request by request.  SpecService     *)
(* runs one service facade with its RuntimeState, SpecStore runs raw put   *)
(* and delete calls of concurrent clients against one metadata store, and  *)
(* SpecGc runs apply_stream_appends and the GC pass one store call at a    *)
(* time.                                                                   *)
(***************************************************************************)
EXTENDS Integers, Sequences, FiniteSets, TLC

VARIABLES
    meta_store,   \* InMemoryMetaStore: [inner: namespace -> key -> Record, min_epoch]
    blob_store,   \* InMemoryBlobStore: chunk key <<stream, seq>> -> ChunkBlob
    config,       \* Config of the service
    now,          \* wall clock read by now_unix_sec()
    base,         \* number of empty finalized blocks ingested before the run
    chain,        \* the finalized chain fed by upstream: block_num -> log payload
    faults,       \* write faults injected so far
    maint_runs,   \* maintenance passes run so far
    appended,     \* <<stream, local id>> entries appended by ingests that returned Ok
    last,         \* the last request and its outcome
    runtime,      \* RuntimeState of the FinalizedIndexService
    svc_config,   \* service part of Config: error thresholds and GC guardrails
    adapter,      \* the MetaStore implementation behind meta_store
    meta_store0,  \* the metadata store as it was before the first call
    clients,      \* store calls in flight: the position and locals of each client
    sealers,      \* apply_stream_appends calls in flight, of ingest and of maintenance
    gc            \* the GC pass in flight: its position and locals

(* State of the service facade and of calls in flight; the engine-level    *)
(* requests leave it alone                                                 *)
aux == <<runtime, svc_config, adapter, meta_store0, clients, sealers, gc>>

vars == <<meta_store, blob_store, config, now, base, chain, faults, maint_runs,
          appended, last, runtime, svc_config, adapter, meta_store0, clients, sealers,
          gc>>

-----------------------------------------------------------------------------
(* Bounds of the exploration *)

MaxBlocks == 2
MaxFaults == 1
MaxTicks == 1
MaxMaintenance == 1

(* Program constants *)

WindowLen == 50000
EnableRatioDen == 1000
DisableRatioDen == 100
ArrayContainerSpan == 65536

WriterEpoch == 1
ZeroHash == 0

BaseHeads == {0, 1000}

Configs ==
    { [target_entries_per_chunk |-> 1, target_chunk_bytes |-> 1,
       maintenance_seal_seconds |-> 600],
      [target_entries_per_chunk |-> 2, target_chunk_bytes |-> 32768,
       maintenance_seal_seconds |-> 600] }

(* Log payloads upstream may deliver: address and topics of each log *)
LogA == [address |-> 1, topics |-> <<10, 20>>]
LogB == [address |-> 2, topics |-> <<10, 21, 30, 40>>]

Payloads == { <<>>, <<LogA>>, <<LogA, LogB>> }

-----------------------------------------------------------------------------
(* Small helpers *)

NoRec == [absent |-> TRUE]

Min(S) == CHOOSE x \in S : \A y \in S : x <= y
Max(S) == CHOOSE x \in S : \A y \in S : x >= y

RECURSIVE SumOver(_, _)
SumOver(f, S) ==
    IF S = {} THEN 0
    ELSE LET x == CHOOSE y \in S : TRUE IN f[x] + SumOver(f, S \ {x})

BlockHash(n) == n

(* shard = id >> 32 and local = id as u32.  Every id and block number of   *)
(* the model is below 2^31, where the shift gives 0 and the cast keeps the *)
(* value.                                                                  *)
ShardOf(id) == 0
LocalOf(id) == id

mk_log(shape, block_num, i) ==
    [address |-> shape.address, topics |-> shape.topics, block_num |-> block_num,
     tx_idx |-> 0, log_idx |-> i - 1, block_hash |-> BlockHash(block_num)]

mk_block(block_num, parent_hash, payload) ==
    [block_num |-> block_num, block_hash |-> BlockHash(block_num),
     parent_hash |-> parent_hash,
     logs |-> [i \in 1..Len(payload) |-> mk_log(payload[i], block_num, i)]]

-----------------------------------------------------------------------------
(* Codecs *)

encode_log(log) ==
    [address |-> log.address, topic_count |-> Len(log.topics), topics |-> log.topics,
     block_num |-> log.block_num, tx_idx |-> log.tx_idx, log_idx |-> log.log_idx,
     block_hash |-> log.block_hash]

decode_log(bytes) ==
    IF bytes.topic_count > 4 THEN [err |-> "Decode"]
    ELSE [err |-> "Ok",
          log |-> [address |-> bytes.address,
                   topics |-> SubSeq(bytes.topics, 1, bytes.topic_count),
                   block_num |-> bytes.block_num, tx_idx |-> bytes.tx_idx,
                   log_idx |-> bytes.log_idx, block_hash |-> bytes.block_hash]]

(* Length in bytes of encode_tail(tail): version byte, roaring header, and *)
(* one array container (8 bytes of key/offset plus 2 bytes per entry) per  *)
(* 2^16-aligned span that holds an entry.                                  *)
encode_tail_len(tail) ==
    LET keys == { v \div ArrayContainerSpan : v \in tail }
        size == [k \in keys |->
                    8 + 2 * Cardinality({ v \in tail : v \div ArrayContainerSpan = k })]
    IN 1 + 8 + SumOver(size, keys)

-----------------------------------------------------------------------------
(* Key schema *)

KindRank(kind) ==
    CASE kind = "addr" -> 1
      [] kind = "topic0_block" -> 2
      [] kind = "topic0_log" -> 3
      [] kind = "topic1" -> 4
      [] kind = "topic2" -> 5
      [] kind = "topic3" -> 6

stream_id(index_kind, value, shard_hi32) == <<index_kind, value, shard_hi32>>

(* Order of two stream ids as strings "<kind>/<hex value>/<hex shard>" *)
StreamLess(a, b) ==
    \/ KindRank(a[1]) < KindRank(b[1])
    \/ a[1] = b[1] /\ a[2] < b[2]
    \/ a[1] = b[1] /\ a[2] = b[2] /\ a[3] < b[3]

RECURSIVE SortedStreams(_)
SortedStreams(S) ==
    IF S = {} THEN <<>>
    ELSE LET m == CHOOSE x \in S : \A y \in S \ {x} : StreamLess(x, y)
         IN <<m>> \o SortedStreams(S \ {m})

RECURSIVE SortedNums(_)
SortedNums(S) ==
    IF S = {} THEN <<>>
    ELSE <<Min(S)>> \o SortedNums(S \ {Min(S)})

-----------------------------------------------------------------------------
(* Metadata store (store/meta.rs) *)

Namespaces ==
    {"state", "logs", "block_meta", "block_hash_to_num", "manifests", "tails",
     "topic0_stats", "topic0_mode"}

META_STATE_KEY == "meta/state"

CondAny == [kind |-> "Any", v |-> 0]
CondIfAbsent == [kind |-> "IfAbsent", v |-> 0]
CondIfVersion(v) == [kind |-> "IfVersion", v |-> v]

DelAny == [kind |-> "Any", v |-> 0]
DelIfVersion(v) == [kind |-> "IfVersion", v |-> v]

(* Rows of the `base` empty blocks that were ingested before the run:      *)
(* block_meta/<n> and block_hash_to_num/<hash n> for 1 <= n <= base.       *)
BaseRow(ns, key) ==
    IF ns = "block_meta" /\ key \in 1..base
    THEN [value |-> [block_hash |-> BlockHash(key), parent_hash |-> BlockHash(key - 1),
                     first_log_id |-> 0, count |-> 0],
          version |-> 1]
    ELSE IF ns = "block_hash_to_num" /\ key \in 1..base
    THEN [value |-> key, version |-> 1]
    ELSE NoRec

get(ms, ns, key) ==
    IF key \in DOMAIN ms.inner[ns] THEN ms.inner[ns][key] ELSE BaseRow(ns, key)

(* A store that validates no fence *)
validate_fence_open(ms, fence) == TRUE

validate_fence(ms, fence) == fence >= ms.min_epoch

(* `allowed` of put for the record read *)
put_allowed(cond, current) ==
    CASE cond.kind = "Any" -> TRUE
      [] cond.kind = "IfAbsent" -> current = NoRec
      [] cond.kind = "IfVersion" -> current # NoRec /\ current.version = cond.v

(* The part of put that runs under the write lock *)
put_locked(ms, ns, key, value, cond) ==
    LET Checked(current) ==
            IF ~put_allowed(cond, current)
            THEN [err |-> "Ok", applied |-> FALSE, store |-> ms]
            ELSE [err |-> "Ok", applied |-> TRUE,
                  store |-> [ms EXCEPT !.inner[ns] =
                      (key :> [value |-> value,
                               version |-> IF current = NoRec THEN 1
                                           ELSE current.version + 1]) @@ @]]
    IN Checked(get(ms, ns, key))

put(ms, ns, key, value, cond, fence) ==
    IF ~validate_fence(ms, fence)
    THEN [err |-> "LeaseLost", applied |-> FALSE, store |-> ms]
    ELSE put_locked(ms, ns, key, value, cond)

(* delete(key, cond, fence); the rows of the empty blocks before the run   *)
(* are not held in `inner` and are never deleted                           *)
should_delete(cond, current) ==
    CASE cond.kind = "Any" -> current # NoRec
      [] cond.kind = "IfVersion" -> current # NoRec /\ current.version = cond.v

(* remove(key) on the map *)
remove_key(ms, ns, key) ==
    [ms EXCEPT !.inner[ns] = [k \in DOMAIN @ \ {key} |-> @[k]]]

(* The part of delete that runs under the write lock *)
delete_locked(ms, ns, key, cond) ==
    IF should_delete(cond, get(ms, ns, key))
    THEN [err |-> "Ok", store |-> remove_key(ms, ns, key)]
    ELSE [err |-> "Ok", store |-> ms]

delete(ms, ns, key, cond, fence) ==
    IF ~validate_fence(ms, fence)
    THEN [err |-> "LeaseLost", store |-> ms]
    ELSE delete_locked(ms, ns, key, cond)

list_prefix(ms, ns) == DOMAIN ms.inner[ns]

(* Blob store (store/blob.rs) *)

put_blob(bs, key, value) == (key :> value) @@ bs

get_blob(bs, key) == IF key \in DOMAIN bs THEN bs[key] ELSE NoRec

delete_blob(bs, key) == [k \in DOMAIN bs \ {key} |-> bs[k]]

blob_list_prefix(bs) == DOMAIN bs

chunk_blob_key(stream, chunk_seq) == <<stream, chunk_seq>>

-----------------------------------------------------------------------------
(* A call in progress: the stores as written so far, the number of puts    *)
(* issued, the put the injector fails (0: none) and the error the call has *)
(* returned, "Ok" while it is still running.                               *)

StartCall(ms, bs, failAt) ==
    [meta |-> ms, blob |-> bs, puts |-> 0, failAt |-> failAt, err |-> "Ok",
     applied |-> TRUE, sealed |-> FALSE]

Fail(c, e) == IF c.err # "Ok" THEN c ELSE [c EXCEPT !.err = e]

(* FaultyMetaStore::put: the injector first, then the inner store *)
meta_put(c, ns, key, value, cond, fence) ==
    IF c.err # "Ok" THEN c
    ELSE IF c.puts + 1 = c.failAt
    THEN [c EXCEPT !.puts = @ + 1, !.err = "Backend"]
    ELSE LET Done(r) ==
                 IF r.err # "Ok"
                 THEN [c EXCEPT !.puts = @ + 1, !.err = r.err]
                 ELSE [c EXCEPT !.puts = @ + 1, !.meta = r.store, !.applied = r.applied]
         IN Done(put(c.meta, ns, key, value, cond, fence))

(* A put_blob that reports success and stores nothing *)
blob_put_unwritten(c, key, value) ==
    IF c.err # "Ok" THEN c
    ELSE IF c.puts + 1 = c.failAt
    THEN [c EXCEPT !.puts = @ + 1, !.err = "Backend"]
    ELSE [c EXCEPT !.puts = @ + 1]

(* FaultyBlobStore::put_blob *)
blob_put(c, key, value) ==
    IF c.err # "Ok" THEN c
    ELSE IF c.puts + 1 = c.failAt
    THEN [c EXCEPT !.puts = @ + 1, !.err = "Backend"]
    ELSE [c EXCEPT !.puts = @ + 1, !.blob = put_blob(c.blob, key, value)]

-----------------------------------------------------------------------------
(* Ingest engine (ingest/engine.rs) *)

DefaultMetaState == [indexed_finalized_head |-> 0, next_log_id |-> 0, writer_epoch |-> 0]

DefaultManifest ==
    [version |-> 0, last_chunk_seq |-> 0, chunk_refs |-> <<>>, approx_count |-> 0,
     last_seal_unix_sec |-> 0]

load_state(ms) ==
    LET rec == get(ms, "state", META_STATE_KEY)
    IN IF rec = NoRec THEN [state |-> DefaultMetaState, version |-> 0]
       ELSE [state |-> rec.value, version |-> rec.version]

(* A store_state that does not look at `applied` *)
store_state_unchecked(c, next, current_version, epoch) ==
    meta_put(c, "state", META_STATE_KEY, next,
             IF current_version = 0 THEN CondIfAbsent ELSE CondIfVersion(current_version),
             epoch)

store_state(c, next, current_version, epoch) ==
    LET cond == IF current_version = 0 THEN CondIfAbsent ELSE CondIfVersion(current_version)
        Checked(r) == IF r.err = "Ok" /\ ~r.applied THEN Fail(r, "CasConflict") ELSE r
    IN Checked(meta_put(c, "state", META_STATE_KEY, next, cond, epoch))

load_block_meta(ms, block_num) == get(ms, "block_meta", block_num)

load_manifest(ms, stream) ==
    LET rec == get(ms, "manifests", stream)
    IN IF rec = NoRec THEN [manifest |-> DefaultManifest, version |-> 0]
       ELSE [manifest |-> rec.value, version |-> rec.version]

store_manifest_create_only(c, stream, manifest, version, epoch) ==
    LET Checked(r) == IF r.err = "Ok" /\ ~r.applied THEN Fail(r, "CasConflict") ELSE r
    IN Checked(meta_put(c, "manifests", stream, manifest, CondIfAbsent, epoch))

store_manifest(c, stream, manifest, version, epoch) ==
    LET cond == IF version = 0 THEN CondIfAbsent ELSE CondIfVersion(version)
        Checked(r) == IF r.err = "Ok" /\ ~r.applied THEN Fail(r, "CasConflict") ELSE r
    IN Checked(meta_put(c, "manifests", stream, manifest, cond, epoch))

load_tail_unread(ms, stream) == {}

load_tail(ms, stream) ==
    LET rec == get(ms, "tails", stream)
    IN IF rec = NoRec THEN {} ELSE rec.value

store_tail_dropped(c, stream, tail, epoch) == c

store_tail(c, stream, tail, epoch) == meta_put(c, "tails", stream, tail, CondAny, epoch)

(* A should_seal whose time trigger does not look at last_seal_unix_sec *)
should_seal_any_age(tail, last_seal_unix_sec, now_unix_sec) ==
    IF tail = {} THEN FALSE
    ELSE IF Cardinality(tail) >= config.target_entries_per_chunk THEN TRUE
    ELSE IF encode_tail_len(tail) >= config.target_chunk_bytes THEN TRUE
    ELSE now_unix_sec >= config.maintenance_seal_seconds

should_seal(tail, last_seal_unix_sec, now_unix_sec) ==
    IF tail = {} THEN FALSE
    ELSE IF Cardinality(tail) >= config.target_entries_per_chunk THEN TRUE
    ELSE IF encode_tail_len(tail) >= config.target_chunk_bytes THEN TRUE
    ELSE IF last_seal_unix_sec > 0
            /\ (IF now_unix_sec >= last_seal_unix_sec
                THEN now_unix_sec - last_seal_unix_sec ELSE 0)
                 >= config.maintenance_seal_seconds
    THEN TRUE
    ELSE FALSE

apply_stream_appends(c, stream, values, epoch) ==
    IF c.err # "Ok" THEN c
    ELSE
      LET Append_(lm, tail0) ==
              LET seal == should_seal(tail0, lm.manifest.last_seal_unix_sec, now)
                  count == Cardinality(tail0)
                  chunk_seq == lm.manifest.last_chunk_seq + 1
                  chunk == [min_local |-> Min(tail0), max_local |-> Max(tail0),
                            count |-> count, bitmap |-> tail0]
                  c1 == IF seal THEN blob_put(c, chunk_blob_key(stream, chunk_seq), chunk)
                        ELSE c
                  manifest ==
                      IF seal
                      THEN [lm.manifest EXCEPT
                              !.last_chunk_seq = chunk_seq,
                              !.approx_count = @ + count,
                              !.last_seal_unix_sec = now,
                              !.chunk_refs = Append(@, [chunk_seq |-> chunk_seq,
                                                        min_local |-> Min(tail0),
                                                        max_local |-> Max(tail0),
                                                        count |-> count])]
                      ELSE lm.manifest
                  tail == IF seal THEN {} ELSE tail0
                  c2 == store_manifest(c1, stream, manifest, lm.version, epoch)
                  Stats(c3) == IF c3.err = "Ok" THEN [c3 EXCEPT !.sealed = seal] ELSE c3
              IN Stats(store_tail(c2, stream, tail, epoch))
      IN Append_(load_manifest(c.meta, stream), load_tail(c.meta, stream) \cup values)

topic0_log_enabled(ms, topic0, block_num) ==
    LET rec == get(ms, "topic0_mode", topic0)
    IN IF rec = NoRec THEN FALSE
       ELSE rec.value.log_enabled /\ block_num >= rec.value.enabled_from_block

apply_window_step(stats, block_num, seen) ==
    LET window == IF stats.window_len >= 1 THEN stats.window_len ELSE 1
        index == block_num % window
        currently_set == index \in stats.ring_bits
        dec == IF currently_set /\ stats.blocks_seen_in_window > 0
               THEN stats.blocks_seen_in_window - 1 ELSE stats.blocks_seen_in_window
        bits1 == stats.ring_bits \ {index}
    IN [window_len |-> stats.window_len,
        blocks_seen_in_window |-> IF seen THEN dec + 1 ELSE dec,
        ring_cursor |-> (index + 1) % window,
        last_updated_block |-> block_num,
        ring_bits |-> IF seen THEN bits1 \cup {index} ELSE bits1]

RECURSIVE WindowSteps(_, _, _, _)
WindowSteps(stats, b, block_num, seen_in_block) ==
    IF b > block_num THEN stats
    ELSE WindowSteps(apply_window_step(stats, b, b = block_num /\ seen_in_block),
                     b + 1, block_num, seen_in_block)

update_one_topic0_stats(c, topic0, block_num, seen_in_block, epoch) ==
    IF c.err # "Ok" THEN c
    ELSE
      LET Mode(c1, stats, mrec) ==
              LET mode0 == IF mrec = NoRec
                           THEN [log_enabled |-> FALSE, enabled_from_block |-> 0]
                           ELSE mrec.value
                  d0 == IF stats.window_len <= block_num + 1
                        THEN stats.window_len ELSE block_num + 1
                  denom == IF d0 >= 1 THEN d0 ELSE 1
                  enable == ~mode0.log_enabled
                            /\ stats.blocks_seen_in_window * EnableRatioDen < denom
                  disable == mode0.log_enabled
                             /\ stats.blocks_seen_in_window * DisableRatioDen > denom
                  mode == IF enable
                          THEN [log_enabled |-> TRUE, enabled_from_block |-> block_num]
                          ELSE IF disable
                          THEN [mode0 EXCEPT !.log_enabled = FALSE]
                          ELSE mode0
              IN IF enable \/ disable \/ mrec = NoRec
                 THEN meta_put(c1, "topic0_mode", topic0, mode, CondAny, epoch)
                 ELSE c1
          Stored(c1, stats) ==
              IF c1.err # "Ok" \/ ~c1.applied THEN [c1 EXCEPT !.applied = TRUE]
              ELSE Mode(c1, stats, get(c1.meta, "topic0_mode", topic0))
          Step(stats, version) ==
              LET cond == IF version = 0 THEN CondIfAbsent ELSE CondIfVersion(version)
              IN Stored(meta_put(c, "topic0_stats", topic0, stats, cond, epoch), stats)
          Update(rec) ==
              LET stats0 == IF rec = NoRec
                            THEN [window_len |-> WindowLen, blocks_seen_in_window |-> 0,
                                  ring_cursor |-> 0,
                                  last_updated_block |->
                                      IF block_num >= 1 THEN block_num - 1 ELSE 0,
                                  ring_bits |-> {}]
                            ELSE rec.value
                  version == IF rec = NoRec THEN 0 ELSE rec.version
              IN IF block_num <= stats0.last_updated_block THEN c
                 ELSE Step(WindowSteps(stats0, stats0.last_updated_block + 1, block_num,
                                       seen_in_block),
                           version)
      IN Update(get(c.meta, "topic0_stats", topic0))

RECURSIVE update_topic0_modes_for_block(_, _, _, _)
update_topic0_modes_for_block(c, block_num, seen_signatures, epoch) ==
    IF seen_signatures = <<>> THEN c
    ELSE update_topic0_modes_for_block(
             update_one_topic0_stats(c, Head(seen_signatures), block_num, TRUE, epoch),
             block_num, Tail(seen_signatures), epoch)

(* The BTreeMap<stream, BTreeSet<local>> built by collect_stream_appends,  *)
(* as the set of its <<stream, local>> entries.                            *)
StreamAppendEntries(ms, block, first_log_id) ==
    UNION { LET log == block.logs[i]
                global == first_log_id + (i - 1)
                shard == ShardOf(global)
                local == LocalOf(global)
                bshard == ShardOf(block.block_num)
                block_local == LocalOf(block.block_num)
                nt == Len(log.topics)
            IN {<<stream_id("addr", log.address, shard), local>>}
               \cup (IF nt >= 1
                     THEN {<<stream_id("topic0_block", log.topics[1], bshard), block_local>>}
                     ELSE {})
               \cup (IF nt >= 1 /\ topic0_log_enabled(ms, log.topics[1], block.block_num)
                     THEN {<<stream_id("topic0_log", log.topics[1], shard), local>>}
                     ELSE {})
               \cup (IF nt >= 2 THEN {<<stream_id("topic1", log.topics[2], shard), local>>}
                     ELSE {})
               \cup (IF nt >= 3 THEN {<<stream_id("topic2", log.topics[3], shard), local>>}
                     ELSE {})
               \cup (IF nt >= 4 THEN {<<stream_id("topic3", log.topics[4], shard), local>>}
                     ELSE {})
            : i \in 1..Len(block.logs) }

Topic0Seen(block) ==
    { block.logs[i].topics[1] : i \in { j \in 1..Len(block.logs) : Len(block.logs[j].topics) >= 1 } }

(* collect_stream_appends: the appends are computed from the store as it   *)
(* is on entry, then the topic0 stats and modes are updated.               *)
collect_stream_appends(c, block, first_log_id, epoch) ==
    [appends |-> StreamAppendEntries(c.meta, block, first_log_id),
     call |-> update_topic0_modes_for_block(c, block.block_num,
                                            SortedNums(Topic0Seen(block)), epoch)]

RECURSIVE put_logs(_, _, _, _, _)
put_logs(c, block, first_log_id, i, epoch) ==
    IF i > Len(block.logs) THEN c
    ELSE put_logs(meta_put(c, "logs", first_log_id + (i - 1), encode_log(block.logs[i]),
                           CondAny, epoch),
                  block, first_log_id, i + 1, epoch)

RECURSIVE apply_all_appends(_, _, _, _)
apply_all_appends(c, streams, appends, epoch) ==
    IF streams = <<>> THEN c
    ELSE apply_all_appends(
             apply_stream_appends(c, Head(streams),
                                  { e[2] : e \in { a \in appends : a[1] = Head(streams) } },
                                  epoch),
             Tail(streams), appends, epoch)

sequence_unchecked(block, expected) == TRUE

sequence_ok(block, expected) == block.block_num = expected

parent_unchecked(block, expected_parent) == TRUE

parent_ok(block, expected_parent) == block.parent_hash = expected_parent

next_state_stale_head(block, first_log_id, epoch) ==
    [indexed_finalized_head |-> block.block_num - 1,
     next_log_id |-> first_log_id + Len(block.logs),
     writer_epoch |-> epoch]

next_state_count_dropped(block, first_log_id, epoch) ==
    [indexed_finalized_head |-> block.block_num,
     next_log_id |-> first_log_id,
     writer_epoch |-> epoch]

next_state(block, first_log_id, epoch) ==
    [indexed_finalized_head |-> block.block_num,
     next_log_id |-> first_log_id + Len(block.logs),
     writer_epoch |-> epoch]

ingest_finalized_block(ms, bs, block, epoch, failAt) ==
    LET c0 == StartCall(ms, bs, failAt)
        Write(state, state_version, first_log_id) ==
            LET c1 == put_logs(c0, block, first_log_id, 1, epoch)
                block_meta == [block_hash |-> block.block_hash,
                               parent_hash |-> block.parent_hash,
                               first_log_id |-> first_log_id,
                               count |-> Len(block.logs)]
                c2 == meta_put(c1, "block_meta", block.block_num, block_meta,
                               CondAny, epoch)
                c3 == meta_put(c2, "block_hash_to_num", block.block_hash,
                               block.block_num, CondAny, epoch)
                Apply(col) == apply_all_appends(col.call,
                                                SortedStreams({ a[1] : a \in col.appends }),
                                                col.appends, epoch)
                c4 == Apply(collect_stream_appends(c3, block, first_log_id, epoch))
                next == next_state(block, first_log_id, epoch)
            IN store_state(c4, next, state_version, epoch)
        Checked(state, state_version, head_meta) ==
            LET expected == state.indexed_finalized_head + 1
                parent_known == state.indexed_finalized_head = 0 \/ head_meta # NoRec
                expected_parent == IF state.indexed_finalized_head = 0 THEN ZeroHash
                                   ELSE head_meta.value.block_hash
            IN IF ~sequence_ok(block, expected) THEN Fail(c0, "InvalidSequence")
               ELSE IF block.block_num > 0 /\ ~parent_known THEN Fail(c0, "NotFound")
               ELSE IF block.block_num > 0 /\ ~parent_ok(block, expected_parent)
               THEN Fail(c0, "InvalidParent")
               ELSE Write(state, state_version, state.next_log_id)
        Loaded(ls) ==
            Checked(ls.state, ls.version, load_block_meta(ms, ls.state.indexed_finalized_head))
    IN Loaded(load_state(ms))

RECURSIVE maintain_all(_, _, _, _)
maintain_all(c, streams, epoch, sealed_streams) ==
    IF streams = <<>> \/ c.err # "Ok"
    THEN [call |-> c, sealed_streams |-> sealed_streams]
    ELSE LET Rest(c1) ==
                 maintain_all(c1, Tail(streams), epoch,
                              IF c1.err = "Ok" /\ c1.sealed THEN sealed_streams + 1
                              ELSE sealed_streams)
         IN Rest(apply_stream_appends(c, Head(streams), {}, epoch))

run_periodic_maintenance(ms, bs, epoch, failAt) ==
    maintain_all(StartCall(ms, bs, failAt), SortedStreams(list_prefix(ms, "tails")),
                 epoch, 0)

-----------------------------------------------------------------------------
(* Filters (domain/filter.rs).  An absent Option<u64> is NoneU64.          *)

NoneU64 == -1

NoClause == [kind |-> "None", vals |-> {}]
ClauseAny == [kind |-> "Any", vals |-> {}]
One(v) == [kind |-> "One", vals |-> {v}]
Or(vs) == [kind |-> "Or", vals |-> vs]

or_terms(clause) ==
    CASE clause.kind = "One" -> 1
      [] clause.kind = "Or" -> Cardinality(clause.vals)
      [] OTHER -> 0

max_or_terms(filter) ==
    Max({ or_terms(filter.address), or_terms(filter.topic0), or_terms(filter.topic1),
          or_terms(filter.topic2), or_terms(filter.topic3) })

clause_values(clause) ==
    IF clause.kind \in {"One", "Or"} THEN clause.vals ELSE {}

-----------------------------------------------------------------------------
(* Query planner (query/planner.rs) *)

overlaps(cref, local_from, local_to) ==
    cref.max_local >= local_from /\ cref.min_local <= local_to

(* The shards of the range are from_log_id >> 32 ..= to_log_id >> 32; the  *)
(* local bounds are those of the first and the last shard.                 *)
ShardRange(from_id, to_id) == ShardOf(from_id)..ShardOf(to_id)

estimate_stream_overlap(ms, stream, from_log_id, to_log_id_inclusive) ==
    LET local_from == LocalOf(from_log_id)
        local_to == LocalOf(to_log_id_inclusive)
        m == get(ms, "manifests", stream)
        refs == IF m = NoRec THEN <<>> ELSE m.value.chunk_refs
        hit == { i \in 1..Len(refs) : overlaps(refs[i], local_from, local_to) }
        t == get(ms, "tails", stream)
        tail == IF t = NoRec THEN {} ELSE t.value
    IN SumOver([i \in hit |-> refs[i].count], hit)
       + Cardinality({ v \in tail : v >= local_from /\ v <= local_to })

estimate_for_values(ms, kind, values, from_log_id, to_log_id_inclusive) ==
    LET streams == { stream_id(kind, v, sh) :
                       v \in values, sh \in ShardRange(from_log_id, to_log_id_inclusive) }
    IN SumOver([sid \in streams |->
                   estimate_stream_overlap(ms, sid, from_log_id, to_log_id_inclusive)],
               streams)

(* Stable sort of <<kind, estimate>> pairs by estimate *)
RECURSIVE SortByEstimate(_)
SortByEstimate(clauses) ==
    IF Len(clauses) <= 1 THEN clauses
    ELSE LET rest == SortByEstimate(Tail(clauses))
             h == Head(clauses)
             k == Cardinality({ i \in 1..Len(rest) : rest[i][2] < h[2] })
         IN SubSeq(rest, 1, k) \o <<h>> \o SubSeq(rest, k + 1, Len(rest))

build_clause_order(ms, filter, from_log_id, to_log_id_inclusive) ==
    LET est(kind, clause) ==
            estimate_for_values(ms, kind, clause_values(clause), from_log_id,
                                to_log_id_inclusive)
        named == << <<"Address", "addr", filter.address>>,
                    <<"Topic1", "topic1", filter.topic1>>,
                    <<"Topic2", "topic2", filter.topic2>>,
                    <<"Topic3", "topic3", filter.topic3>> >>
        entry == [i \in 1..Len(named) |->
                    IF clause_values(named[i][3]) # {}
                    THEN <<<<named[i][1], est(named[i][2], named[i][3])>>>> ELSE <<>>]
        Topic0(estimate) == IF clause_values(filter.topic0) # {} /\ estimate > 0
                            THEN <<<<"Topic0Log", estimate>>>> ELSE <<>>
        Clauses(e) == e[1] \o e[2] \o e[3] \o e[4]
                      \o Topic0(est("topic0_log", filter.topic0))
        Kinds(sorted) == [i \in 1..Len(sorted) |-> sorted[i][1]]
    IN Kinds(SortByEstimate(Clauses(entry)))

should_force_block_scan(filter, max_terms_allowed, policy) ==
    max_or_terms(filter) > max_terms_allowed /\ policy = "BlockScan"

should_error_too_broad(filter, max_terms_allowed, policy) ==
    max_or_terms(filter) > max_terms_allowed /\ policy = "Error"

-----------------------------------------------------------------------------
(* Query executor (query/executor.rs) *)

maybe_merge_chunk(bs, stream, cref) ==
    LET blob == get_blob(bs, chunk_blob_key(stream, cref.chunk_seq))
    IN IF blob = NoRec THEN [err |-> "Ok", ids |-> {}]
       ELSE IF blob.count # cref.count THEN [err |-> "Decode", ids |-> {}]
       ELSE [err |-> "Ok", ids |-> blob.bitmap]

load_stream_entries(ms, bs, stream) ==
    LET m == get(ms, "manifests", stream)
        refs == IF m = NoRec THEN <<>> ELSE m.value.chunk_refs
        t == get(ms, "tails", stream)
        tail == IF t = NoRec THEN {} ELSE t.value
        Merge(merged) ==
            IF \E i \in 1..Len(refs) : merged[i].err # "Ok"
            THEN [err |-> "Decode", ids |-> {}]
            ELSE [err |-> "Ok",
                  ids |-> UNION { merged[i].ids : i \in 1..Len(refs) } \cup tail]
    IN Merge([i \in 1..Len(refs) |-> maybe_merge_chunk(bs, stream, refs[i])])

fetch_union_log_level(ms, bs, kind, values, from_log_id, to_log_id_inclusive) ==
    LET streams == { stream_id(kind, v, sh) :
                       v \in values, sh \in ShardRange(from_log_id, to_log_id_inclusive) }
        local_from == LocalOf(from_log_id)
        local_to == LocalOf(to_log_id_inclusive)
        Merge(loaded) ==
            IF \E sid \in streams : loaded[sid].err # "Ok"
            THEN [err |-> "Decode", ids |-> {}]
            ELSE [err |-> "Ok",
                  ids |-> UNION { { local \in loaded[sid].ids :
                                      local >= local_from /\ local <= local_to }
                                  : sid \in streams }]
    IN Merge([sid \in streams |-> load_stream_entries(ms, bs, sid)])

fetch_union_block_level(ms, bs, kind, values, from_block, to_block) ==
    fetch_union_log_level(ms, bs, kind, values, from_block, to_block)

(* The record a log locator resolves to: the log stored for that id *)
log_locator(ms, log_id) == get(ms, "logs", log_id)

load_log_by_id(ms, bs, log_id) ==
    LET rec == log_locator(ms, log_id)
    IN IF rec = NoRec THEN NoRec ELSE decode_log(rec.value).log

match_clause(present, value, clause) ==
    CASE clause.kind \in {"None", "Any"} -> TRUE
      [] clause.kind = "One" -> present /\ value \in clause.vals
      [] clause.kind = "Or" -> present /\ value \in clause.vals

topic_at(log, i) == IF Len(log.topics) >= i THEN log.topics[i] ELSE 0

exact_match(log, filter) ==
    /\ match_clause(TRUE, log.address, filter.address)
    /\ match_clause(Len(log.topics) >= 1, topic_at(log, 1), filter.topic0)
    /\ match_clause(Len(log.topics) >= 2, topic_at(log, 2), filter.topic1)
    /\ match_clause(Len(log.topics) >= 3, topic_at(log, 3), filter.topic2)
    /\ match_clause(Len(log.topics) >= 4, topic_at(log, 4), filter.topic3)

LogLess(a, b) ==
    \/ a.block_num < b.block_num
    \/ a.block_num = b.block_num /\ a.tx_idx < b.tx_idx
    \/ a.block_num = b.block_num /\ a.tx_idx = b.tx_idx /\ a.log_idx < b.log_idx

(* out.sort_by_key(|l| (l.block_num, l.tx_idx, l.log_idx)): a stable sort *)
RECURSIVE sort_logs(_)
sort_logs(out) ==
    IF Len(out) <= 1 THEN out
    ELSE LET rest == sort_logs(Tail(out))
             h == Head(out)
             k == Cardinality({ i \in 1..Len(rest) : LogLess(rest[i], h) })
         IN SubSeq(rest, 1, k) \o <<h>> \o SubSeq(rest, k + 1, Len(rest))

(* The hydration loop: ids in ascending order, push each match, stop once  *)
(* max_results logs are collected.                                         *)
RECURSIVE collect_matches(_, _, _)
collect_matches(loaded, max_results, out) ==
    IF loaded = <<>> THEN out
    ELSE LET log == Head(loaded)
         IN IF log = NoRec THEN collect_matches(Tail(loaded), max_results, out)
            ELSE LET out1 == Append(out, log)
                 IN IF max_results # NoneU64 /\ Len(out1) >= max_results THEN out1
                    ELSE collect_matches(Tail(loaded), max_results, out1)

intersect_sets(sets, from, to_inclusive) ==
    IF Len(sets) = 0 THEN from..to_inclusive
    ELSE { id \in sets[1] : \A i \in 1..Len(sets) : id \in sets[i] }

ClauseOf(filter, name) ==
    CASE name = "Address" -> [kind |-> "addr", clause |-> filter.address]
      [] name = "Topic1" -> [kind |-> "topic1", clause |-> filter.topic1]
      [] name = "Topic2" -> [kind |-> "topic2", clause |-> filter.topic2]
      [] name = "Topic3" -> [kind |-> "topic3", clause |-> filter.topic3]
      [] name = "Topic0Log" -> [kind |-> "topic0_log", clause |-> filter.topic0]

execute_block_scan(ms, bs, plan) ==
    LET blocks == { b \in plan.clipped_from_block..plan.clipped_to_block :
                      get(ms, "block_meta", b) # NoRec }
        ids == UNION { LET meta == get(ms, "block_meta", b).value
                       IN meta.first_log_id..(meta.first_log_id + meta.count - 1)
                       : b \in blocks }
        Keep(log) == IF log # NoRec /\ exact_match(log, plan.filter) THEN log ELSE NoRec
        Loaded(sorted) == [i \in 1..Len(sorted) |-> Keep(load_log_by_id(ms, bs, sorted[i]))]
    IN [err |-> "Ok",
        logs |-> sort_logs(collect_matches(Loaded(SortedNums(ids)),
                                           plan.options.max_results, <<>>))]

execute_plan(ms, bs, plan) ==
    IF plan.force_block_scan THEN execute_block_scan(ms, bs, plan)
    ELSE
      LET order == plan.clause_order
          has_t0 == clause_values(plan.filter.topic0) # {}
          Run(fetched, topic0_blocks) ==
              LET candidates == intersect_sets([i \in 1..Len(order) |-> fetched[i].ids],
                                               plan.from_log_id, plan.to_log_id_inclusive)
                  Keep(log) ==
                      IF log = NoRec THEN NoRec
                      ELSE IF log.block_num < plan.clipped_from_block
                              \/ log.block_num > plan.clipped_to_block THEN NoRec
                      ELSE IF has_t0 /\ LocalOf(log.block_num) \notin topic0_blocks.ids
                      THEN NoRec
                      ELSE IF exact_match(log, plan.filter) THEN log
                      ELSE NoRec
                  Loaded(sorted) ==
                      [i \in 1..Len(sorted) |-> Keep(load_log_by_id(ms, bs, sorted[i]))]
              IN IF (\E i \in 1..Len(order) : fetched[i].err # "Ok")
                    \/ (has_t0 /\ topic0_blocks.err # "Ok")
                 THEN [err |-> "Decode", logs |-> <<>>]
                 ELSE [err |-> "Ok",
                       logs |-> sort_logs(collect_matches(Loaded(SortedNums(candidates)),
                                                          plan.options.max_results, <<>>))]
      IN Run([i \in 1..Len(order) |->
                 LET co == ClauseOf(plan.filter, order[i])
                 IN fetch_union_log_level(ms, bs, co.kind, clause_values(co.clause),
                                          plan.from_log_id, plan.to_log_id_inclusive)],
             fetch_union_block_level(ms, bs, "topic0_block",
                                     clause_values(plan.filter.topic0),
                                     plan.clipped_from_block, plan.clipped_to_block))

-----------------------------------------------------------------------------
(* Query engine (query/engine.rs) *)

QueryOk(logs) == [err |-> "Ok", logs |-> logs]
QueryErr(e) == [err |-> e, logs |-> <<>>]
QueryTooBroad(actual, max) ==
    [err |-> "QueryTooBroad", logs |-> <<>>, actual |-> actual, max |-> max]

query_finalized(ms, bs, filter, options, max_terms_allowed, policy) ==
    IF should_error_too_broad(filter, max_terms_allowed, policy)
    THEN QueryTooBroad(max_or_terms(filter), max_terms_allowed)
    ELSE IF get(ms, "state", META_STATE_KEY) = NoRec THEN QueryOk(<<>>)
    ELSE
      LET finalized_head == get(ms, "state", META_STATE_KEY).value.indexed_finalized_head
          BlockHashMode(nrec, mrec) ==
              IF nrec = NoRec \/ mrec = NoRec THEN QueryErr("NotFound")
              ELSE IF mrec.value.block_hash # filter.block_hash THEN QueryErr("NotFound")
              ELSE
                LET meta == mrec.value
                    num == nrec.value
                IN execute_plan(ms, bs,
                       [filter |-> [filter EXCEPT !.from_block = num, !.to_block = num],
                        options |-> options,
                        clipped_from_block |-> num, clipped_to_block |-> num,
                        from_log_id |-> meta.first_log_id,
                        to_log_id_inclusive |->
                            meta.first_log_id + (IF meta.count >= 1 THEN meta.count - 1 ELSE 0),
                        clause_order |-> <<>>, force_block_scan |-> FALSE])
          LookedUp(nrec) ==
              BlockHashMode(nrec, IF nrec = NoRec THEN NoRec
                                  ELSE get(ms, "block_meta", nrec.value))
          RangeMode(from, clipped_from, clipped_to, from_meta, to_meta) ==
              IF from > finalized_head THEN QueryOk(<<>>)
              ELSE IF clipped_from > clipped_to THEN QueryOk(<<>>)
              ELSE IF from_meta = NoRec \/ to_meta = NoRec THEN QueryOk(<<>>)
              ELSE
                LET from_log_id == from_meta.value.first_log_id
                    to_log_id_inclusive ==
                        to_meta.value.first_log_id
                        + (IF to_meta.value.count >= 1 THEN to_meta.value.count - 1 ELSE 0)
                    force_block_scan ==
                        should_force_block_scan(filter, max_terms_allowed, policy)
                IN IF from_log_id > to_log_id_inclusive THEN QueryOk(<<>>)
                   ELSE execute_plan(ms, bs,
                            [filter |-> filter, options |-> options,
                             clipped_from_block |-> clipped_from,
                             clipped_to_block |-> clipped_to,
                             from_log_id |-> from_log_id,
                             to_log_id_inclusive |-> to_log_id_inclusive,
                             clause_order |->
                                 IF force_block_scan THEN <<>>
                                 ELSE build_clause_order(ms, filter, from_log_id,
                                                         to_log_id_inclusive),
                             force_block_scan |-> force_block_scan])
          Clipped(from, clipped_to) ==
              RangeMode(from, from, clipped_to, get(ms, "block_meta", from),
                        get(ms, "block_meta", clipped_to))
      IN IF filter.block_hash # NoneU64
            /\ (filter.from_block # NoneU64 \/ filter.to_block # NoneU64)
         THEN QueryErr("InvalidParams")
         ELSE IF filter.block_hash # NoneU64
         THEN LookedUp(get(ms, "block_hash_to_num", filter.block_hash))
         ELSE
           LET from == IF filter.from_block = NoneU64 THEN 0 ELSE filter.from_block
               to == IF filter.to_block = NoneU64 THEN finalized_head ELSE filter.to_block
           IN Clipped(from, IF to <= finalized_head THEN to ELSE finalized_head)

(* The reference of the differential test: a scan of the ingested blocks *)
naive_query(blocks, filter, max_results) ==
    LET from == IF filter.from_block = NoneU64 THEN 0 ELSE filter.from_block
        nums == { n \in DOMAIN blocks :
                    /\ n >= from
                    /\ (filter.to_block = NoneU64 \/ n <= filter.to_block)
                    /\ (filter.block_hash = NoneU64 \/ filter.block_hash = blocks[n].block_hash) }
        order == SortedNums(nums)
        all == [k \in 1..Len(order) |-> blocks[order[k]].logs]
        Flat[k \in 0..Len(order)] == IF k = 0 THEN <<>> ELSE Flat[k - 1] \o all[k]
        matching == SelectSeq(Flat[Len(order)], LAMBDA l : exact_match(l, filter))
        limit == IF max_results >= 1 THEN max_results ELSE 1
    IN IF max_results # NoneU64 /\ Len(matching) > limit
       THEN SubSeq(matching, 1, limit)
       ELSE sort_logs(matching)

-----------------------------------------------------------------------------
(* The service over its stores *)

EmptyInner == [ns \in Namespaces |-> <<>>]

StateRow(head, next_log_id, version) ==
    [value |-> [indexed_finalized_head |-> head, next_log_id |-> next_log_id,
                writer_epoch |-> WriterEpoch],
     version |-> version]

(* The stores after `b` empty blocks: meta/state has been written b times, *)
(* block_meta and block_hash_to_num hold the rows of BaseRow.              *)
StoreAfterEmptyBlocks(b) ==
    [inner |-> IF b = 0 THEN EmptyInner
               ELSE [EmptyInner EXCEPT !["state"] = (META_STATE_KEY :> StateRow(b, 0, b))],
     min_epoch |-> 0]

HeadOf(ms) == load_state(ms).state.indexed_finalized_head
NextLogIdOf(ms) == load_state(ms).state.next_log_id

(* RuntimeState::default() (api.rs) *)
RuntimeDefault ==
    [degraded |-> FALSE, throttled |-> FALSE, consecutive_backend_errors |-> 0]

(* Error thresholds and GC guardrails of the service *)
ServiceConfigs ==
    { [backend_error_throttle_after |-> 1, backend_error_degraded_after |-> 2,
       gc_guardrail_action |-> a, max_orphan_chunk_bytes |-> 0,
       max_orphan_manifest_segments |-> 0, max_stale_tail_keys |-> 0] :
        a \in {"FailClosed", "Throttle"} }

DefaultServiceConfig ==
    CHOOSE c \in ServiceConfigs : c.gc_guardrail_action = "FailClosed"

(* The blob store, the clock and the counters of the run after construction *)
InitRun ==
    /\ blob_store = <<>>
    /\ now = 1
    /\ chain = <<>>
    /\ faults = 0
    /\ maint_runs = 0
    /\ appended = {}
    /\ last = [op |-> "init", block_num |-> 0, parent_hash |-> 0, result |-> "Ok"]

(* The stores and the clock after construction *)
InitStores ==
    /\ meta_store = StoreAfterEmptyBlocks(base)
    /\ InitRun

(* No store client is in a call *)
IdleCall ==
    [pc |-> "idle", op |-> "none", key |-> "", value |-> 0, cond |-> CondAny, fence |-> 0,
     current |-> NoRec, err |-> "Ok", applied |-> FALSE]

MaxClients == 2

Clients == 1..MaxClients

(* GcStats::default() *)
GcStatsDefault ==
    [orphan_chunk_bytes |-> 0, orphan_manifest_segments |-> 0, stale_tail_keys |-> 0,
     deleted_orphan_chunks |-> 0, deleted_stale_tails |-> 0, exceeded_guardrail |-> FALSE]

(* The callers of apply_stream_appends *)
Sealers == {"ingest", "maintenance"}

(* No apply_stream_appends call and no GC pass is in flight *)
IdleSealer ==
    [pc |-> "idle", values |-> {}, manifest |-> DefaultManifest, manifest_version |-> 0,
     tail |-> {}, chunk |-> NoRec, calls |-> 0, ok |-> 0]

IdleGc ==
    [pc |-> "idle", manifest_page |-> {}, tail_page |-> {}, manifest_streams |-> {},
     referenced_chunks |-> {}, blob_page |-> {}, stats |-> GcStatsDefault, runs |-> 0]

InitWorkers ==
    /\ sealers = [s \in Sealers |-> IdleSealer]
    /\ gc = IdleGc

(* The service holds the in-memory stores and no raw store call is made *)
InitCalls ==
    /\ adapter = "memory"
    /\ meta_store0 = meta_store
    /\ clients = [c \in Clients |-> IdleCall]
    /\ InitWorkers

Init ==
    /\ base \in BaseHeads
    /\ config \in Configs
    /\ InitStores
    /\ runtime = RuntimeDefault
    /\ svc_config = DefaultServiceConfig
    /\ InitCalls

PayloadsFor(block_num) ==
    IF block_num \in DOMAIN chain THEN {chain[block_num]}
    ELSE IF block_num = HeadOf(meta_store) + 1 THEN Payloads
    ELSE {<<>>}

(* ingest_finalized_block(block, epoch); failAt > 0 injects a fault at    *)
(* that put of the call                                                    *)
Ingest(block_num, parent_hash, payload, failAt) ==
    LET block == mk_block(block_num, parent_hash, payload)
        Returned(r, head, next_log_id) ==
            /\ meta_store' = r.meta
            /\ blob_store' = r.blob
            /\ chain' = IF block_num = head + 1 /\ block_num \notin DOMAIN chain
                        THEN (block_num :> payload) @@ chain ELSE chain
            /\ appended' = IF r.err = "Ok"
                           THEN appended \cup StreamAppendEntries(meta_store, block,
                                                                  next_log_id)
                           ELSE appended
            /\ last' = [op |-> "ingest", block_num |-> block_num,
                        parent_hash |-> parent_hash, result |-> r.err]
    IN /\ block_num <= base + MaxBlocks
       /\ failAt > 0 => faults < MaxFaults
       /\ faults' = IF failAt > 0 THEN faults + 1 ELSE faults
       /\ Returned(ingest_finalized_block(meta_store, blob_store, block, WriterEpoch, failAt),
                   HeadOf(meta_store), NextLogIdOf(meta_store))
       /\ UNCHANGED <<config, now, base, maint_runs>>
       /\ UNCHANGED aux

(* run_periodic_maintenance(epoch) *)
Maintenance(failAt) ==
    LET Returned(r) ==
            /\ meta_store' = r.call.meta
            /\ blob_store' = r.call.blob
            /\ last' = [op |-> "maintenance", block_num |-> 0, parent_hash |-> 0,
                        result |-> r.call.err]
    IN /\ maint_runs < MaxMaintenance
       /\ failAt > 0 => faults < MaxFaults
       /\ Returned(run_periodic_maintenance(meta_store, blob_store, WriterEpoch, failAt))
       /\ faults' = IF failAt > 0 THEN faults + 1 ELSE faults
       /\ maint_runs' = maint_runs + 1
       /\ UNCHANGED <<config, now, base, chain, appended>>
       /\ UNCHANGED aux

(* Time passes *)
Tick ==
    /\ now < 1 + MaxTicks * config.maintenance_seal_seconds
    /\ now' = now + config.maintenance_seal_seconds
    /\ last' = [op |-> "tick", block_num |-> 0, parent_hash |-> 0, result |-> "Ok"]
    /\ UNCHANGED <<meta_store, blob_store, config, base, chain, faults, maint_runs,
                   appended>>
    /\ UNCHANGED aux

(* The requests upstream can send: the committed head again, the next      *)
(* block with the right or a wrong parent, or a block further ahead.       *)
Requests ==
    LET After(h) ==
            { <<h, BlockHash(h - 1)>>, <<h + 1, BlockHash(h)>>, <<h + 1, BlockHash(h) + 1>>,
              <<h + 2, BlockHash(h + 1)>> }
    IN After(HeadOf(meta_store))

(* Number of puts of the call when no fault is injected *)
IngestPuts(block_num, parent_hash, payload) ==
    ingest_finalized_block(meta_store, blob_store,
                           mk_block(block_num, parent_hash, payload), WriterEpoch, 0).puts

IngestAny ==
    \E req \in Requests :
      \E payload \in PayloadsFor(req[1]) :
        \E failAt \in 0..IngestPuts(req[1], req[2], payload) :
          Ingest(req[1], req[2], payload, failAt)

MaintenanceAny ==
    \E failAt \in 0..run_periodic_maintenance(meta_store, blob_store, WriterEpoch, 0).call.puts :
        Maintenance(failAt)

Next == IngestAny \/ MaintenanceAny \/ Tick

Spec == Init /\ [][Next]_vars

-----------------------------------------------------------------------------
(* Queries against the service *)

DefaultMaxOrTerms == 128

(* planner_max_or_terms and planner_broad_query_policy of the service *)
DefaultPlanner == [max_or_terms |-> DefaultMaxOrTerms, policy |-> "Error"]

NarrowPlanners ==
    { [max_or_terms |-> 1, policy |-> "BlockScan"],
      [max_or_terms |-> 1, policy |-> "Error"] }

mk_filter(from_block, to_block, block_hash, address, topic0, topic1, topic2, topic3) ==
    [from_block |-> from_block, to_block |-> to_block, block_hash |-> block_hash,
     address |-> address, topic0 |-> topic0, topic1 |-> topic1, topic2 |-> topic2,
     topic3 |-> topic3]

(* address and topic0..topic3 clauses of the filters queried *)
ClauseSets ==
    { <<NoClause, NoClause, NoClause, NoClause, NoClause>>,
      <<One(1), NoClause, NoClause, NoClause, NoClause>>,
      <<NoClause, One(10), NoClause, NoClause, NoClause>>,
      <<Or({1, 2}), Or({10, 11}), NoClause, NoClause, NoClause>>,
      <<NoClause, NoClause, One(21), One(30), One(40)>>,
      <<NoClause, ClauseAny, One(20), NoClause, NoClause>> }

BlockRanges ==
    { <<NoneU64, NoneU64>>, <<base + 1, NoneU64>>, <<base + 1, base + 1>>,
      <<base + 2, NoneU64>> }

RangeFilters ==
    { mk_filter(range[1], range[2], NoneU64, cs[1], cs[2], cs[3], cs[4], cs[5]) :
        range \in BlockRanges, cs \in ClauseSets }

HashFilters ==
    { mk_filter(NoneU64, NoneU64, BlockHash(base + 1), NoClause, One(10), NoClause,
                NoClause, NoClause),
      mk_filter(NoneU64, NoneU64, BlockHash(base + 2), One(1), NoClause, NoClause,
                NoClause, NoClause),
      mk_filter(base + 1, NoneU64, BlockHash(base + 1), NoClause, NoClause, NoClause,
                NoClause, NoClause),
      mk_filter(NoneU64, base + 1, BlockHash(base + 1), NoClause, One(10), NoClause,
                NoClause, NoClause) }

Filters == RangeFilters \cup HashFilters

(* Filters also queried with a max_results *)
LimitFilters ==
    { f \in RangeFilters :
        /\ f.from_block = base + 1 /\ f.to_block = NoneU64
        /\ f.address = NoClause /\ f.topic1 = NoClause
        /\ f.topic0 \in {NoClause, One(10)} }

(* Filters also queried by a service whose planner allows one OR term *)
BroadFilters ==
    { f \in RangeFilters :
        /\ f.from_block \in {NoneU64, base + 1}
        /\ f.to_block = NoneU64
        /\ f.address = Or({1, 2}) }

(* The queries sent: <<filter, max_results, planner>> *)
Queries ==
    { <<f, NoneU64, DefaultPlanner>> : f \in Filters }
    \cup { <<f, m, DefaultPlanner>> : f \in LimitFilters, m \in {1, 2} }
    \cup { <<f, NoneU64, pl>> : f \in BroadFilters, pl \in NarrowPlanners }

(* The blocks whose ingest returned Ok, as upstream delivered them *)
CommittedBlocks(ms) ==
    [n \in { b \in DOMAIN chain : b <= HeadOf(ms) } |->
        mk_block(n, BlockHash(n - 1), chain[n])]

(* query_finalized(filter, options) *)
Query(filter, max_results, planner) ==
    LET r == query_finalized(meta_store, blob_store, filter,
                             [max_results |-> max_results],
                             planner.max_or_terms, planner.policy)
    IN /\ last' = [op |-> "query", filter |-> filter, max_results |-> max_results,
                   planner |-> planner, result |-> r]
       /\ UNCHANGED <<meta_store, blob_store, config, now, base, chain, faults,
                      maint_runs, appended>>
       /\ UNCHANGED aux

QueryAny == \E q \in Queries : Query(q[1], q[2], q[3])

(* Ingests that no fault interrupts *)
IngestClean ==
    \E req \in Requests : \E payload \in PayloadsFor(req[1]) :
        Ingest(req[1], req[2], payload, 0)

NextQuery == IngestClean \/ QueryAny

SpecQuery == Init /\ [][NextQuery]_vars

(* The stores of a run that ingests the committed blocks without a fault *)
RECURSIVE FaultFreeRun(_, _)
FaultFreeRun(from, to) ==
    IF to < from
    THEN [meta |-> StoreAfterEmptyBlocks(base), blob |-> <<>>]
    ELSE LET prev == FaultFreeRun(from, to - 1)
             r == ingest_finalized_block(prev.meta, prev.blob,
                                         mk_block(to, BlockHash(to - 1), chain[to]),
                                         WriterEpoch, 0)
         IN [meta |-> r.meta, blob |-> r.blob]

-----------------------------------------------------------------------------
(* Properties of the query path *)

IndexedRangeQuery ==
    /\ last.op = "query"
    /\ last.filter.block_hash = NoneU64
    /\ last.filter.from_block # NoneU64
    /\ ~should_force_block_scan(last.filter, last.planner.max_or_terms, last.planner.policy)
    /\ ~should_error_too_broad(last.filter, last.planner.max_or_terms, last.planner.policy)

(* C1: after any sequence of successful ingests, a range-mode query on the *)
(* indexed path returns exactly the logs a naive scan of the ingested      *)
(* blocks in [from_block, min(to_block, head)] returns, in ascending       *)
(* (block_num, tx_idx, log_idx) order, truncated to max_results.  Stated   *)
(* for the filters that give a from_block.                                 *)
C1_QueryEqualsNaiveScan ==
    IndexedRangeQuery =>
        last.result = QueryOk(naive_query(CommittedBlocks(meta_store), last.filter,
                                          last.max_results))

(* C25, as stated: in every index state, an index without a meta/state     *)
(* record included, a query that gives block_hash together with from_block *)
(* or to_block returns InvalidParams.                                      *)
C25_HashWithRangeIsInvalidParams ==
    (/\ last.op = "query"
     /\ last.filter.block_hash # NoneU64
     /\ (last.filter.from_block # NoneU64 \/ last.filter.to_block # NoneU64)) =>
        last.result = QueryErr("InvalidParams")

(* C26, as stated: a query whose filter has more OR terms in one slot than *)
(* planner_max_or_terms returns QueryTooBroad{actual, max} under policy    *)
(* Error in every index state, and under policy BlockScan returns exactly  *)
(* the matching logs of the clipped block range in ascending (block_num,   *)
(* tx_idx, log_idx) order.                                                 *)
C26_BroadQueryErrorsOrScans ==
    (/\ last.op = "query"
     /\ max_or_terms(last.filter) > last.planner.max_or_terms) =>
        IF last.planner.policy = "Error"
        THEN last.result = QueryTooBroad(max_or_terms(last.filter),
                                         last.planner.max_or_terms)
        ELSE last.result = QueryOk(naive_query(CommittedBlocks(meta_store), last.filter,
                                               last.max_results))

-----------------------------------------------------------------------------
(* Properties of the ingest path *)

CommittedHead == HeadOf(meta_store)

BlockMetaOf(b) == get(meta_store, "block_meta", b)

IngestReturnedOk == last.op = "ingest" /\ last.result = "Ok"

(* The blocks ingested before the run have the rows of BaseRow: empty      *)
(* blocks with first_log_id 0, each naming its predecessor as parent.  The *)
(* run leaves them alone when it writes no block_meta row at or below      *)
(* `base`; RunBlocks are the blocks from the last of them on.              *)
BaseRowsIntact == \A k \in DOMAIN meta_store.inner["block_meta"] : k > base

RunBlocks == (IF base = 0 THEN 1 ELSE base)..CommittedHead

(* C2: an ingest that returns Ok finds the head at block_num - 1 and       *)
(* leaves it at block_num; whatever the step (an ingest that succeeds, is  *)
(* rejected, or fails at a write; maintenance) the head never decreases    *)
(* and never skips a block number.                                         *)
C2_HeadAdvancesByOne ==
    [][ /\ (last'.op = "ingest" /\ last'.result = "Ok")
            => /\ HeadOf(meta_store) = last'.block_num - 1
               /\ HeadOf(meta_store') = last'.block_num
        /\ HeadOf(meta_store') \in {HeadOf(meta_store), HeadOf(meta_store) + 1} ]_vars

(* A second block is committed by the retry of an ingest that failed *)
C2_Witness ==
    IngestReturnedOk /\ faults = 1 /\ CommittedHead = base + 2 /\ last.block_num = CommittedHead

(* Sum of block_meta(B).count over the blocks B <= head: the blocks with  *)
(* no log add nothing to it.                                               *)
SumCounts ==
    LET with_logs == { b \in RunBlocks :
                         BlockMetaOf(b) # NoRec /\ BlockMetaOf(b).value.count > 0 }
    IN SumOver([b \in with_logs |-> BlockMetaOf(b).value.count], with_logs)

(* C3: in every state next_log_id is the sum of block_meta(B).count over   *)
(* the blocks B <= head, and the ranges [first_log_id, first_log_id+count) *)
(* of the blocks 1..head follow one another in block order without         *)
(* overlap, whatever ingests failed and were retried.                      *)
C3_NextLogIdIsSumOfCounts ==
    /\ BaseRowsIntact
    /\ \A b \in RunBlocks : BlockMetaOf(b) # NoRec
    /\ NextLogIdOf(meta_store) = SumCounts
    /\ \A b \in RunBlocks \ {1, base} :
          BlockMetaOf(b - 1).value.first_log_id + BlockMetaOf(b - 1).value.count
              <= BlockMetaOf(b).value.first_log_id

(* Two blocks with logs are committed, one of them by a retry *)
C3_Witness ==
    /\ faults = 1 /\ CommittedHead = base + 2 /\ IngestReturnedOk
    /\ BlockMetaOf(CommittedHead).value.count > 0
    /\ BlockMetaOf(CommittedHead).value.first_log_id > 0

ParentChain ==
    /\ BaseRowsIntact
    /\ CommittedHead >= 1 => BlockMetaOf(1) # NoRec /\ BlockMetaOf(1).value.parent_hash = ZeroHash
    /\ \A b \in RunBlocks \ {1, base} :
          /\ BlockMetaOf(b) # NoRec /\ BlockMetaOf(b - 1) # NoRec
          /\ BlockMetaOf(b).value.parent_hash = BlockMetaOf(b - 1).value.block_hash

ExpectedParent ==
    IF CommittedHead = 0 THEN ZeroHash ELSE BlockMetaOf(CommittedHead).value.block_hash

(* C4: in every state the parent_hash of block_meta(B) is the block_hash   *)
(* of block_meta(B-1) for 1 < B <= head and block_meta(1).parent_hash is   *)
(* zero; an ingest of block head+1 whose parent_hash is not the stored     *)
(* hash of the head returns InvalidParent and writes nothing.              *)
C4_ParentChain ==
    /\ []ParentChain
    /\ [][ (/\ last'.op = "ingest"
            /\ last'.block_num = CommittedHead + 1
            /\ last'.parent_hash # ExpectedParent)
           => /\ last'.result = "InvalidParent"
              /\ meta_store' = meta_store /\ blob_store' = blob_store ]_vars

(* A block with a wrong parent was rejected on top of a committed block *)
C4_Witness ==
    /\ last.op = "ingest" /\ last.result = "InvalidParent"
    /\ CommittedHead = base + 1 /\ last.block_num = CommittedHead + 1

(* Union of the sealed chunk bitmaps of a stream with its persisted tail *)
ManifestOf(ms, stream) ==
    IF stream \in DOMAIN ms.inner["manifests"] THEN ms.inner["manifests"][stream].value
    ELSE DefaultManifest

TailOf(ms, stream) ==
    IF stream \in DOMAIN ms.inner["tails"] THEN ms.inner["tails"][stream].value ELSE {}

StreamUnion(ms, bs, stream) ==
    LET refs == ManifestOf(ms, stream).chunk_refs
        keys == { <<stream, refs[i].chunk_seq>> : i \in 1..Len(refs) }
    IN UNION { bs[k].bitmap : k \in keys \cap DOMAIN bs } \cup TailOf(ms, stream)

LogRecordsStored(b) ==
    LET meta == BlockMetaOf(b).value
    IN \A i \in 1..meta.count :
          LET rec == get(meta_store, "logs", meta.first_log_id + (i - 1))
          IN /\ rec # NoRec
             /\ b \in DOMAIN chain =>
                   rec.value = encode_log(mk_log(chain[b][i], b, i))

(* C5: the state CAS is the last write of an ingest: in every state, also  *)
(* one left by an ingest that failed at a write, every block B <= head has *)
(* its block_meta, a stored log record for every id of its range, and      *)
(* every local id it contributed to a stream in that stream's tail or in   *)
(* one of its chunks.                                                      *)
C5_CommittedBlocksAreDurable ==
    /\ BaseRowsIntact
    /\ \A b \in RunBlocks : BlockMetaOf(b) # NoRec /\ LogRecordsStored(b)
    /\ \A b \in DOMAIN chain : b <= CommittedHead => BlockMetaOf(b).value.count = Len(chain[b])
    /\ \A e \in appended : e[2] \in StreamUnion(meta_store, blob_store, e[1])

(* A block with logs is committed and the ingest of the next one failed   *)
(* after it had written records                                            *)
C5_Witness ==
    /\ last.op = "ingest" /\ last.result = "Backend"
    /\ CommittedHead = base + 1 /\ appended # {}
    /\ get(meta_store, "block_meta", CommittedHead + 1) # NoRec

-----------------------------------------------------------------------------
(* Properties of the streams *)

Streams ==
    DOMAIN meta_store.inner["manifests"] \cup DOMAIN meta_store.inner["tails"]
    \cup { e[1] : e \in appended }

AppendedTo(stream) == { e[2] : e \in { a \in appended : a[1] = stream } }

(* C6, as stated: for every stream the union of its sealed chunk bitmaps   *)
(* with its persisted tail is exactly the set of local ids that committed  *)
(* blocks appended to it.                                                  *)
C6_UnionIsExactlyCommittedAppends ==
    \A stream \in Streams :
        StreamUnion(meta_store, blob_store, stream) = AppendedTo(stream)

(* first_log_id of block b of the chain: the logs of the blocks before it *)
ChainFirstLogId(b) ==
    LET before == { k \in DOMAIN chain : k < b }
    IN SumOver([k \in before |-> Len(chain[k])], before)

(* The <<stream, local id>> pairs under which a log of an ingested or      *)
(* attempted block can be indexed: its address, its topics, and the block  *)
(* of its topic0.                                                          *)
MatchingEntries ==
    UNION { UNION { LET log == chain[b][i]
                        local == LocalOf(ChainFirstLogId(b) + (i - 1))
                        nt == Len(log.topics)
                    IN {<<stream_id("addr", log.address, 0), local>>}
                       \cup (IF nt >= 1
                             THEN { <<stream_id("topic0_block", log.topics[1], 0), LocalOf(b)>>,
                                    <<stream_id("topic0_log", log.topics[1], 0), local>> }
                             ELSE {})
                       \cup (IF nt >= 2 THEN {<<stream_id("topic1", log.topics[2], 0), local>>}
                             ELSE {})
                       \cup (IF nt >= 3 THEN {<<stream_id("topic2", log.topics[3], 0), local>>}
                             ELSE {})
                       \cup (IF nt >= 4 THEN {<<stream_id("topic3", log.topics[4], 0), local>>}
                             ELSE {})
                    : i \in 1..Len(chain[b]) }
            : b \in DOMAIN chain }

(* C6, amended: for every stream and every sequence of ingests and         *)
(* maintenance runs, failed and retried ingests included, the union of the *)
(* sealed chunk bitmaps with the persisted tail holds every local id that  *)
(* committed blocks appended to the stream, and every id it holds is the   *)
(* id of a log, of a committed block or of the block whose ingest was      *)
(* attempted, that matches the key of the stream.                          *)
C6_NoAppendLostNoForeignId ==
    \A stream \in Streams :
        /\ AppendedTo(stream) \subseteq StreamUnion(meta_store, blob_store, stream)
        /\ \A local \in StreamUnion(meta_store, blob_store, stream) :
              <<stream, local>> \in MatchingEntries

(* A stream holds an id of a block whose ingest failed, next to the ids    *)
(* of a committed block                                                    *)
C6_Witness ==
    /\ last.op = "ingest" /\ last.result = "Backend" /\ CommittedHead = base + 1
    /\ \E stream \in Streams :
          /\ AppendedTo(stream) # {}
          /\ StreamUnion(meta_store, blob_store, stream) # AppendedTo(stream)

ChunkBitmaps(stream) ==
    LET refs == ManifestOf(meta_store, stream).chunk_refs
    IN [i \in 1..Len(refs) |->
          IF <<stream, refs[i].chunk_seq>> \in DOMAIN blob_store
          THEN blob_store[<<stream, refs[i].chunk_seq>>].bitmap ELSE {}]

(* C7, as stated: whatever write of an ingest failed before the ingest    *)
(* was retried, a local id of a stream is in exactly one sealed chunk or   *)
(* in the tail, never in two chunks and never in a chunk and the tail, so  *)
(* that approx_count is the number of distinct sealed ids.  Stated for the *)
(* states an ingest that returned Ok leaves, the retry included.           *)
C7_IdInOneChunkOrTail ==
    IngestReturnedOk =>
    \A stream \in DOMAIN meta_store.inner["manifests"] :
        LET bitmaps == ChunkBitmaps(stream)
            tail == TailOf(meta_store, stream)
        IN /\ \A i \in DOMAIN bitmaps : \A j \in DOMAIN bitmaps :
                  i # j => bitmaps[i] \cap bitmaps[j] = {}
           /\ \A i \in DOMAIN bitmaps : bitmaps[i] \cap tail = {}
           /\ ManifestOf(meta_store, stream).approx_count
                  = Cardinality(UNION { bitmaps[i] : i \in DOMAIN bitmaps })

LogRecords(ms) == [id \in DOMAIN ms.inner["logs"] |-> ms.inner["logs"][id].value]

(* C8, as stated: after one injected write failure of an ingest, the retry *)
(* of the same block and the ingests that follow leave the committed state *)
(* of a run without the fault: the same head and next_log_id, the same log *)
(* records, and the same result for every query.                           *)
C8_RetryEqualsFaultFreeRun ==
    (IngestReturnedOk /\ faults = 1 /\ maint_runs = 0 /\ now = 1)
    => LET ref == FaultFreeRun(base + 1, CommittedHead)
       IN /\ HeadOf(ref.meta) = CommittedHead
          /\ NextLogIdOf(ref.meta) = NextLogIdOf(meta_store)
          /\ LogRecords(ref.meta) = LogRecords(meta_store)
          /\ \A q \in Queries :
                query_finalized(meta_store, blob_store, q[1], [max_results |-> q[2]],
                                q[3].max_or_terms, q[3].policy)
                = query_finalized(ref.meta, ref.blob, q[1], [max_results |-> q[2]],
                                  q[3].max_or_terms, q[3].policy)

C10_ResubmitChangesNothing ==
    [][ (/\ last'.op = "ingest"
         /\ last'.block_num >= 1
         /\ last'.block_num <= CommittedHead)
        => /\ last'.result \in {"Ok", "InvalidSequence"}
           /\ meta_store' = meta_store /\ blob_store' = blob_store ]_vars

(* The committed block with logs was submitted again *)
C10_Witness ==
    /\ last.op = "ingest" /\ last.result = "InvalidSequence"
    /\ last.block_num = CommittedHead /\ last.block_num \in DOMAIN chain
    /\ chain[last.block_num] # <<>>

-----------------------------------------------------------------------------
(* Properties of what a query can see *)

(* C11, as stated: while the records of block B are written and the state  *)
(* CAS of its ingest is not applied (the ingest failed at a later write),  *)
(* no query, in range mode or in block-hash mode, returns a log of B:      *)
(* every log returned has block_num <= the indexed_finalized_head.         *)
C11_NoLogAboveHead ==
    \A q \in Queries :
        LET r == query_finalized(meta_store, blob_store, q[1], [max_results |-> q[2]],
                                 q[3].max_or_terms, q[3].policy)
        IN \A i \in 1..Len(r.logs) : r.logs[i].block_num <= CommittedHead

(* A range query that gives no from_block and is answered by the planner *)
RangeQueryWithoutFrom ==
    /\ last.op = "query"
    /\ last.filter.block_hash = NoneU64
    /\ last.filter.from_block = NoneU64
    /\ ~should_error_too_broad(last.filter, last.planner.max_or_terms, last.planner.policy)

(* C30, as stated: for every topic0 signature whose stored mode record is  *)
(* {log_enabled = true, enabled_from_block = E}, the topic0_log stream of  *)
(* the signature holds the global id of every log with that topic0 in      *)
(* every committed block >= E.                                             *)
C30_EnabledModeCoversLogs ==
    \A s \in DOMAIN meta_store.inner["topic0_mode"] :
        LET mode == get(meta_store, "topic0_mode", s).value
            ids == StreamUnion(meta_store, blob_store, stream_id("topic0_log", s, 0))
        IN mode.log_enabled =>
              \A b \in DOMAIN chain :
                  (b <= CommittedHead /\ b >= mode.enabled_from_block) =>
                      \A i \in 1..Len(chain[b]) :
                          (Len(chain[b][i].topics) >= 1 /\ chain[b][i].topics[1] = s) =>
                              LocalOf(BlockMetaOf(b).value.first_log_id + (i - 1)) \in ids

(* The chunk_refs of a manifest carry the seqs 1, 2, ... and               *)
(* last_chunk_seq is the seq of the last one                               *)
WellFormedManifest(manifest) ==
    /\ \A i \in 1..Len(manifest.chunk_refs) : manifest.chunk_refs[i].chunk_seq = i
    /\ manifest.last_chunk_seq = Len(manifest.chunk_refs)

(* The step sealed a chunk of `stream`: one ref more, numbered             *)
(* last_chunk_seq + 1, with the bounds and the count of the tail sealed,   *)
(* which holds the tail stored before, and the tail stored after is empty  *)
SealStepOk(stream) ==
    LET before == ManifestOf(meta_store, stream)
        after == ManifestOf(meta_store', stream)
        ref == after.chunk_refs[Len(after.chunk_refs)]
        sealed == blob_store'[chunk_blob_key(stream, ref.chunk_seq)].bitmap
    IN /\ Len(after.chunk_refs) = Len(before.chunk_refs) + 1
       /\ SubSeq(after.chunk_refs, 1, Len(before.chunk_refs)) = before.chunk_refs
       /\ ref.chunk_seq = before.last_chunk_seq + 1
       /\ chunk_blob_key(stream, ref.chunk_seq) \in DOMAIN blob_store'
       /\ TailOf(meta_store, stream) \subseteq sealed
       /\ ref.min_local = Min(sealed)
       /\ ref.max_local = Max(sealed)
       /\ ref.count = Cardinality(sealed)
       /\ TailOf(meta_store', stream) = {}

(* C33: every stored manifest is well formed after any sequence of         *)
(* appends, seals and retries, and each seal appends exactly one ref with  *)
(* chunk_seq = last_chunk_seq + 1 and the minimum, maximum and cardinality *)
(* of the tail being sealed, after which the persisted tail is empty.      *)
C33_ManifestsWellFormed ==
    [][\A stream \in list_prefix(meta_store', "manifests") :
          /\ WellFormedManifest(ManifestOf(meta_store', stream))
          /\ ManifestOf(meta_store', stream).chunk_refs
                 # ManifestOf(meta_store, stream).chunk_refs
               => SealStepOk(stream)]_vars

(* The tail is not empty and below both size thresholds *)
SmallTail(tail) ==
    /\ tail # {}
    /\ Cardinality(tail) < config.target_entries_per_chunk
    /\ encode_tail_len(tail) < config.target_chunk_bytes

(* The time trigger of a stream whose manifest is `manifest` *)
TimeTrigger(manifest) ==
    /\ manifest.last_seal_unix_sec > 0
    /\ now - manifest.last_seal_unix_sec >= config.maintenance_seal_seconds

(* The step added a chunk ref to the manifest of `stream` *)
SealedInStep(stream) ==
    Len(ManifestOf(meta_store', stream).chunk_refs)
        > Len(ManifestOf(meta_store, stream).chunk_refs)

(* The tail the step hands to should_seal for `stream`: the stored tail,   *)
(* and for an ingest the locals the block appends to the stream            *)
TailInStep(stream) ==
    IF last'.op = "ingest"
    THEN TailOf(meta_store, stream)
           \cup { e[2] : e \in { a \in appended' \ appended : a[1] = stream } }
    ELSE TailOf(meta_store, stream)

(* The streams the step applies appends to *)
StreamsInStep ==
    IF last'.op = "ingest" THEN { a[1] : a \in appended' \ appended }
    ELSE IF last'.op = "maintenance" THEN list_prefix(meta_store, "tails")
    ELSE {}

(* C34: a stream that has never been sealed (last_seal_unix_sec = 0) is    *)
(* never sealed by the time trigger alone; a non-empty tail below both     *)
(* size thresholds is sealed by ingest or by run_periodic_maintenance      *)
(* exactly when last_seal_unix_sec > 0 and now - last_seal_unix_sec >=     *)
(* maintenance_seal_seconds; an empty tail is never sealed.  Whatever the  *)
(* step returns, the chunk it seals is a tail should_seal accepts; a step  *)
(* that returns Ok seals every small tail whose time trigger holds.        *)
C34_TimeTriggerNeedsAnEarlierSeal ==
    [][/\ \A stream \in list_prefix(meta_store', "manifests") :
             SealedInStep(stream)
             => LET before == ManifestOf(meta_store, stream)
                    K(sealed) ==
                        /\ sealed # {}
                        /\ SmallTail(sealed) => TimeTrigger(before)
                IN K(blob_store'[chunk_blob_key(stream, before.last_chunk_seq + 1)].bitmap)
       /\ last'.result = "Ok"
          => \A stream \in StreamsInStep :
                LET K(tail) ==
                        /\ tail = {} => ~SealedInStep(stream)
                        /\ SmallTail(tail)
                           => (SealedInStep(stream)
                                 <=> TimeTrigger(ManifestOf(meta_store, stream)))
                IN K(TailInStep(stream))]_vars

(* Maintenance returned Ok after time passed, having sealed the small tail *)
(* of a stream sealed earlier and left the never-sealed tail of another in *)
(* place                                                                   *)
C34_OldTailSealedOnlyAfterASeal ==
    /\ last.op = "maintenance" /\ last.result = "Ok"
    /\ now > config.maintenance_seal_seconds
    /\ \E stream \in list_prefix(meta_store, "manifests") :
          LET m == ManifestOf(meta_store, stream)
          IN /\ Len(m.chunk_refs) >= 2
             /\ m.last_seal_unix_sec = now
             /\ m.chunk_refs[Len(m.chunk_refs)].count < config.target_entries_per_chunk
    /\ \E stream \in list_prefix(meta_store, "tails") :
          /\ TailOf(meta_store, stream) # {}
          /\ ManifestOf(meta_store, stream).last_seal_unix_sec = 0

(* The namespaces run_periodic_maintenance has no put for *)
MaintenanceFrame ==
    {"state", "logs", "block_meta", "block_hash_to_num", "topic0_mode", "topic0_stats"}

(* The step moved ids of `stream` from its tail into a new chunk, or left  *)
(* them where they were                                                    *)
IdsOnlyMoved(stream) ==
    LET before == ManifestOf(meta_store, stream).chunk_refs
        after == ManifestOf(meta_store', stream).chunk_refs
    IN /\ StreamUnion(meta_store', blob_store', stream)
            = StreamUnion(meta_store, blob_store, stream)
       /\ TailOf(meta_store', stream) \subseteq TailOf(meta_store, stream)
       /\ Len(after) >= Len(before)
       /\ SubSeq(after, 1, Len(before)) = before

(* C35: run_periodic_maintenance, run on its own, changes no stream's      *)
(* id-set: for every stream tail \cup chunks is the same set before and    *)
(* after, ids only move from the tail into a new chunk; and it leaves      *)
(* meta/state, the log records, block_meta, block_hash_to_num and the      *)
(* topic0 mode and stats records unchanged.                                *)
C35_MaintenanceKeepsIdSets ==
    [][last'.op = "maintenance"
       => /\ \A stream \in list_prefix(meta_store, "manifests")
                             \cup list_prefix(meta_store', "manifests")
                             \cup list_prefix(meta_store, "tails")
                             \cup list_prefix(meta_store', "tails") :
                IdsOnlyMoved(stream)
          /\ \A ns \in MaintenanceFrame : meta_store'.inner[ns] = meta_store.inner[ns]]_vars

(* Maintenance returned Ok and a stream whose ids were ingested has an     *)
(* empty tail and a chunk more than the ingests sealed                     *)
C35_MaintenanceSealedATail ==
    /\ last.op = "maintenance" /\ last.result = "Ok"
    /\ \E stream \in list_prefix(meta_store, "manifests") :
          LET m == ManifestOf(meta_store, stream)
          IN /\ TailOf(meta_store, stream) = {}
             /\ m.last_seal_unix_sec = now
             /\ now > config.maintenance_seal_seconds
             /\ StreamUnion(meta_store, blob_store, stream) # {}

(* C36: an ingest that is rejected by validation leaves both stores        *)
(* unchanged: if block_num # head + 1 it returns InvalidSequence, and if   *)
(* block_num = head + 1 but parent_hash differs from the stored hash of    *)
(* the head block (or from zero when head = 0) it returns InvalidParent;   *)
(* in both cases no log, block_meta, hash-index, stream, topic0 or         *)
(* meta/state record is written.                                           *)
C36_RejectedIngestWritesNothing ==
    [][last'.op = "ingest"
       => /\ last'.block_num # HeadOf(meta_store) + 1
             => last'.result = "InvalidSequence"
          /\ (/\ last'.block_num = HeadOf(meta_store) + 1
              /\ last'.parent_hash # ExpectedParent)
             => last'.result = "InvalidParent"
          /\ last'.result = "InvalidSequence"
             => last'.block_num # HeadOf(meta_store) + 1
          /\ last'.result = "InvalidParent"
             => last'.parent_hash # ExpectedParent
          /\ last'.result \in {"InvalidSequence", "InvalidParent"}
             => /\ meta_store' = meta_store
                /\ blob_store' = blob_store]_vars

(* The block after an ingested block of logs was offered with a wrong      *)
(* parent hash and rejected                                                *)
C36_WrongParentRejected ==
    /\ last.op = "ingest" /\ last.result = "InvalidParent"
    /\ last.block_num = HeadOf(meta_store) + 1
    /\ HeadOf(meta_store) > base
    /\ NextLogIdOf(meta_store) > 0

(* C18, as stated: a range query without from_block behaves as from_block  *)
(* = 0: it returns every matching log of the blocks from the first         *)
(* ingested block up to min(to_block or head, head); when a committed log  *)
(* matches the filter the result is not empty.                             *)
C18_AbsentFromBlockIsZero ==
    RangeQueryWithoutFrom =>
        /\ last.result = QueryOk(naive_query(CommittedBlocks(meta_store), last.filter,
                                             last.max_results))
        /\ naive_query(CommittedBlocks(meta_store), last.filter, last.max_results) # <<>>
               => last.result.logs # <<>>

-----------------------------------------------------------------------------
(* GC worker (gc/worker.rs) *)

(* FenceToken(u64::MAX) of the GC deletes: no min_epoch exceeds it *)
GcFence == 2147483647

(* Length in bytes of encode_chunk(blob): version byte, min, max, count,   *)
(* checksum, and the serialized bitmap                                     *)
encode_chunk_len(blob) == 1 + 4 * 4 + (encode_tail_len(blob.bitmap) - 1)

(* manifest_streams and referenced_chunks read from the manifests listed *)
gc_scan_manifests(ms, manifest_page) ==
    LET found == { mk \in manifest_page : get(ms, "manifests", mk) # NoRec }
        Refs(mk) == get(ms, "manifests", mk).value.chunk_refs
    IN [manifest_streams |-> found,
        referenced_chunks |->
            UNION { { chunk_blob_key(mk, Refs(mk)[i].chunk_seq) :
                        i \in 1..Len(Refs(mk)) } : mk \in found }]

(* The loop over blob_page: every listed key that is not referenced is     *)
(* measured and deleted; the outcome does not depend on the order of keys  *)
RECURSIVE gc_sweep_blobs(_, _, _, _)
gc_sweep_blobs(bs, keys, referenced_chunks, stats) ==
    IF keys = {} THEN [blob |-> bs, stats |-> stats]
    ELSE
      LET ck == CHOOSE k \in keys : TRUE
          Swept(blob) ==
              [stats EXCEPT
                 !.orphan_chunk_bytes =
                     IF blob = NoRec THEN @ ELSE @ + encode_chunk_len(blob),
                 !.deleted_orphan_chunks = @ + 1]
      IN IF ck \in referenced_chunks
         THEN gc_sweep_blobs(bs, keys \ {ck}, referenced_chunks, stats)
         ELSE gc_sweep_blobs(delete_blob(bs, ck), keys \ {ck}, referenced_chunks,
                             Swept(get_blob(bs, ck)))

(* The loop over tail_page: the tail of every stream without a manifest    *)
(* in manifest_streams is deleted                                          *)
RECURSIVE gc_sweep_tails(_, _, _, _)
gc_sweep_tails(ms, keys, manifest_streams, stats) ==
    IF keys = {} THEN [meta |-> ms, stats |-> stats]
    ELSE
      LET tk == CHOOSE k \in keys : TRUE
      IN IF tk \in manifest_streams
         THEN gc_sweep_tails(ms, keys \ {tk}, manifest_streams, stats)
         ELSE gc_sweep_tails(delete(ms, "tails", tk, DelAny, GcFence).store, keys \ {tk},
                             manifest_streams,
                             [stats EXCEPT !.deleted_stale_tails = @ + 1])

(* A run_once that never reports an exceeded guardrail *)
gc_finish_within(stats, cfg) ==
    [stats EXCEPT
       !.stale_tail_keys = stats.deleted_stale_tails,
       !.orphan_manifest_segments = 0,
       !.exceeded_guardrail = FALSE]

gc_finish(stats, cfg) ==
    [stats EXCEPT
       !.stale_tail_keys = stats.deleted_stale_tails,
       !.orphan_manifest_segments = 0,
       !.exceeded_guardrail =
           \/ stats.orphan_chunk_bytes > cfg.max_orphan_chunk_bytes
           \/ 0 > cfg.max_orphan_manifest_segments
           \/ stats.deleted_stale_tails > cfg.max_stale_tail_keys]

(* GcWorker::run_once with no other call in between *)
run_once(ms, bs, cfg) ==
    LET Tails(b) ==
            LET Done(t) == [meta |-> t.meta, blob |-> b.blob,
                            stats |-> gc_finish(t.stats, cfg)]
            IN Done(gc_sweep_tails(ms, list_prefix(ms, "tails"),
                                   gc_scan_manifests(ms, list_prefix(ms, "manifests"))
                                       .manifest_streams,
                                   b.stats))
    IN Tails(gc_sweep_blobs(bs, blob_list_prefix(bs),
                            gc_scan_manifests(ms, list_prefix(ms, "manifests"))
                                .referenced_chunks,
                            GcStatsDefault))

(* GcWorker::prune_block_hash_index_below(min_block_num, fence_epoch) *)
RECURSIVE prune_keys(_, _, _, _, _)
prune_keys(ms, keys, min_block_num, fence_epoch, removed) ==
    IF keys = {} THEN [err |-> "Ok", meta |-> ms, removed |-> removed]
    ELSE
      LET key == Min(keys)
          Pruned(rec) ==
              IF rec = NoRec \/ ~(rec.value < min_block_num)
              THEN prune_keys(ms, keys \ {key}, min_block_num, fence_epoch, removed)
              ELSE LET Deleted(d) ==
                           IF d.err # "Ok"
                           THEN [err |-> d.err, meta |-> ms, removed |-> removed]
                           ELSE prune_keys(d.store, keys \ {key}, min_block_num,
                                           fence_epoch, removed + 1)
                   IN Deleted(delete(ms, "block_hash_to_num", key, DelAny, fence_epoch))
      IN Pruned(get(ms, "block_hash_to_num", key))

prune_block_hash_index_below(ms, min_block_num, fence_epoch) ==
    prune_keys(ms, list_prefix(ms, "block_hash_to_num"), min_block_num, fence_epoch, 0)

-----------------------------------------------------------------------------
(* Service facade (api.rs): RuntimeState *)

set_degraded_skipped(rt) == rt

set_degraded(rt) == [rt EXCEPT !.degraded = TRUE, !.throttled = FALSE]

set_throttled(rt) == [rt EXCEPT !.throttled = TRUE]

clear_throttle(rt) == [rt EXCEPT !.throttled = FALSE]

on_backend_success_recovering(rt) ==
    [rt EXCEPT !.consecutive_backend_errors = 0, !.degraded = FALSE, !.throttled = FALSE]

on_backend_success(rt) ==
    IF rt.throttled /\ ~rt.degraded
    THEN clear_throttle([rt EXCEPT !.consecutive_backend_errors = 0])
    ELSE [rt EXCEPT !.consecutive_backend_errors = 0]

on_backend_error(rt, throttle_after, degraded_after) ==
    IF rt.consecutive_backend_errors + 1 >= degraded_after
    THEN set_degraded([rt EXCEPT !.consecutive_backend_errors = @ + 1])
    ELSE IF rt.consecutive_backend_errors + 1 >= throttle_after
    THEN set_throttled([rt EXCEPT !.consecutive_backend_errors = @ + 1])
    ELSE [rt EXCEPT !.consecutive_backend_errors = @ + 1]

update_backend_state(rt, cfg, err) ==
    IF err = "Ok" THEN on_backend_success(rt)
    ELSE IF err = "Backend"
    THEN on_backend_error(rt, cfg.backend_error_throttle_after,
                          cfg.backend_error_degraded_after)
    ELSE rt

health(rt) == [healthy |-> ~rt.degraded /\ ~rt.throttled, degraded |-> rt.degraded]

admit_ingest_unthrottled(rt) == IF rt.degraded THEN "Degraded" ELSE "Ok"

(* The admission checks at the head of ingest_finalized_block *)
admit_ingest(rt) ==
    IF rt.degraded THEN "Degraded"
    ELSE IF rt.throttled THEN "Throttled"
    ELSE "Ok"

(* Bounds of the service runs *)
MaxServiceFaults == 2
MaxServiceCalls == 1
FaultStride == 3

(* A request answered by the facade without calling the engine *)
Refused(op, err) ==
    /\ last' = [op |-> op, result |-> err]
    /\ UNCHANGED <<meta_store, blob_store, chain, faults, maint_runs, appended, runtime>>

(* FinalizedIndexService::ingest_finalized_block(block) *)
SvcIngest(block_num, parent_hash, payload, failAt) ==
    LET Returned(r, head) ==
            /\ meta_store' = r.meta
            /\ blob_store' = r.blob
            /\ chain' = IF block_num = head + 1 /\ block_num \notin DOMAIN chain
                        THEN (block_num :> payload) @@ chain ELSE chain
            /\ faults' = IF failAt > 0 THEN faults + 1 ELSE faults
            /\ runtime' = IF r.err \in {"InvalidParent", "FinalityViolation"}
                          THEN set_degraded(update_backend_state(runtime, svc_config, r.err))
                          ELSE update_backend_state(runtime, svc_config, r.err)
            /\ last' = [op |-> "ingest", result |-> r.err]
            /\ UNCHANGED <<maint_runs, appended>>
    IN /\ block_num <= base + MaxBlocks
       /\ failAt > 0 => faults < MaxServiceFaults
       /\ IF admit_ingest(runtime) # "Ok"
          THEN failAt = 0 /\ Refused("ingest", admit_ingest(runtime))
          ELSE Returned(ingest_finalized_block(meta_store, blob_store,
                                               mk_block(block_num, parent_hash, payload),
                                               WriterEpoch, failAt),
                        HeadOf(meta_store))
       /\ UNCHANGED <<config, now, base, svc_config, adapter, meta_store0, clients,
                      sealers, gc>>

(* Upstream of the service delivers blocks of one log *)
ServicePayloadsFor(block_num) ==
    IF block_num \in DOMAIN chain THEN {chain[block_num]} ELSE {<<LogA>>}

(* The requests upstream sends to the service: the next block with the     *)
(* right or a wrong parent, and the block after it                         *)
ServiceRequests ==
    LET After(h) == { <<h + 1, BlockHash(h)>>, <<h + 1, BlockHash(h) + 1>>,
                      <<h + 2, BlockHash(h + 1)>> }
    IN After(HeadOf(meta_store))

(* The store faults injected into a service call of n writes: none, the    *)
(* last write, or one write in every FaultStride counted from the first    *)
ServiceFaultPoints(n) == { k \in 0..n : k = 0 \/ k = n \/ k % FaultStride = 1 }

SvcIngestAny ==
    \E req \in ServiceRequests :
      \E payload \in ServicePayloadsFor(req[1]) :
        \E failAt \in ServiceFaultPoints(IngestPuts(req[1], req[2], payload)) :
          SvcIngest(req[1], req[2], payload, failAt)

(* FinalizedIndexService::run_maintenance() *)
SvcMaintenance(failAt) ==
    LET Returned(r) ==
            /\ meta_store' = r.call.meta
            /\ blob_store' = r.call.blob
            /\ faults' = IF failAt > 0 THEN faults + 1 ELSE faults
            /\ maint_runs' = maint_runs + 1
            /\ runtime' = update_backend_state(runtime, svc_config, r.call.err)
            /\ last' = [op |-> "maintenance", result |-> r.call.err]
            /\ UNCHANGED <<chain, appended>>
    IN /\ maint_runs < MaxServiceCalls
       /\ failAt > 0 => faults < MaxServiceFaults
       /\ IF runtime.degraded THEN failAt = 0 /\ Refused("maintenance", "Degraded")
          ELSE Returned(run_periodic_maintenance(meta_store, blob_store, WriterEpoch, failAt))
       /\ UNCHANGED <<config, now, base, svc_config, adapter, meta_store0, clients,
                      sealers, gc>>

SvcMaintenanceAny ==
    \E failAt \in 0..run_periodic_maintenance(meta_store, blob_store, WriterEpoch, 0).call.puts :
        SvcMaintenance(failAt)

(* FinalizedIndexService::run_gc_once() *)
SvcGc ==
    LET Returned(r) ==
            /\ meta_store' = r.meta
            /\ blob_store' = r.blob
            /\ runtime' = IF r.stats.exceeded_guardrail
                          THEN IF svc_config.gc_guardrail_action = "FailClosed"
                               THEN set_degraded(runtime)
                               ELSE set_throttled(runtime)
                          ELSE clear_throttle(runtime)
            /\ last' = [op |-> "gc", result |-> "Ok"]
            /\ UNCHANGED <<chain, faults, maint_runs, appended>>
    IN /\ IF runtime.degraded THEN Refused("gc", "Degraded")
          ELSE Returned(run_once(meta_store, blob_store, svc_config))
       /\ UNCHANGED <<config, now, base, svc_config, adapter, meta_store0, clients,
                      sealers, gc>>

(* FinalizedIndexService::prune_block_hash_index_below(min_block_num) *)
SvcPrune(min_block_num) ==
    LET Returned(r) ==
            /\ meta_store' = r.meta
            /\ runtime' = update_backend_state(runtime, svc_config, r.err)
            /\ last' = [op |-> "prune", result |-> r.err]
            /\ UNCHANGED <<blob_store, chain, faults, maint_runs, appended>>
    IN /\ IF runtime.degraded THEN Refused("prune", "Degraded")
          ELSE Returned(prune_block_hash_index_below(meta_store, min_block_num, WriterEpoch))
       /\ UNCHANGED <<config, now, base, svc_config, adapter, meta_store0, clients,
                      sealers, gc>>

SvcPruneAny == \E min_block_num \in {base + 2} : SvcPrune(min_block_num)

(* The queries sent to the service *)
ServiceQueries ==
    { q \in Queries :
        /\ q[2] = NoneU64 /\ q[3] = DefaultPlanner
        /\ q[1].block_hash = NoneU64 /\ q[1].from_block = base + 1
        /\ q[1].to_block = NoneU64 /\ q[1].address = NoClause /\ q[1].topic1 = NoClause
        /\ q[1].topic0 = One(10) }

(* FinalizedIndexService::query_finalized(filter, options) *)
SvcQuery(filter, max_results, planner) ==
    LET Returned(r) ==
            /\ runtime' = update_backend_state(runtime, svc_config, r.err)
            /\ last' = [op |-> "query", result |-> r.err]
            /\ UNCHANGED <<meta_store, blob_store, chain, faults, maint_runs, appended>>
    IN /\ IF runtime.degraded THEN Refused("query", "Degraded")
          ELSE Returned(query_finalized(meta_store, blob_store, filter,
                                        [max_results |-> max_results],
                                        planner.max_or_terms, planner.policy))
       /\ UNCHANGED <<config, now, base, svc_config, adapter, meta_store0, clients,
                      sealers, gc>>

SvcQueryAny == \E q \in ServiceQueries : SvcQuery(q[1], q[2], q[3])

(* FinalizedIndexService::indexed_finalized_head().  `get_fails` is the    *)
(* read of meta/state answering Backend: the `?` returns it to the caller  *)
(* before update_backend_state is reached.                                 *)
SvcHead(get_fails) ==
    /\ get_fails => faults < MaxServiceFaults
    /\ faults' = IF get_fails THEN faults + 1 ELSE faults
    /\ runtime' = IF get_fails THEN runtime
                  ELSE update_backend_state(runtime, svc_config, "Ok")
    /\ last' = IF get_fails THEN [op |-> "head", result |-> "Backend"]
               ELSE [op |-> "head", result |-> "Ok",
                     head |-> load_state(meta_store).state.indexed_finalized_head]
    /\ UNCHANGED <<meta_store, blob_store, config, now, base, chain, maint_runs,
                   appended, svc_config, adapter, meta_store0, clients, sealers, gc>>

(* FinalizedIndexService::health() *)
SvcHealth ==
    /\ last' = [op |-> "health", result |-> health(runtime)]
    /\ UNCHANGED <<meta_store, blob_store, config, now, base, chain, faults, maint_runs,
                   appended, runtime, svc_config, adapter, meta_store0, clients, sealers,
                   gc>>

(* One service over empty stores, sealing every append *)
InitService ==
    /\ base = 0
    /\ config \in { c \in Configs : c.target_entries_per_chunk = 1 }
    /\ InitStores
    /\ runtime = RuntimeDefault
    /\ svc_config \in ServiceConfigs
    /\ InitCalls

NextService ==
    \/ SvcIngestAny
    \/ SvcMaintenanceAny
    \/ SvcGc
    \/ SvcPruneAny
    \/ SvcQueryAny
    \/ \E get_fails \in BOOLEAN : SvcHead(get_fails)
    \/ SvcHealth

SpecService == InitService /\ [][NextService]_vars

(* The request operations of the facade *)
RequestOps == {"ingest", "query", "head", "maintenance", "gc", "prune"}

(* C19: once the degraded flag is set no service operation clears it, and  *)
(* from then on health() reports degraded = true and healthy = false.      *)
C19_DegradedIsLatching ==
    [][runtime.degraded =>
          /\ runtime'.degraded
          /\ health(runtime') = [healthy |-> FALSE, degraded |-> TRUE]
          /\ last'.op = "health" => last'.result = [healthy |-> FALSE, degraded |-> TRUE]]_vars

(* health() answered by a degraded service that served a call before *)
C19_HealthWhileDegraded ==
    /\ runtime.degraded
    /\ last.op = "health"
    /\ last.result = [healthy |-> FALSE, degraded |-> TRUE]

(* C20, as stated: every request operation invoked while the service is    *)
(* degraded returns Error::Degraded and neither reads nor writes the       *)
(* metadata or blob store.                                                 *)
C20_DegradedRefusesEverything ==
    [][(runtime.degraded /\ last'.op \in RequestOps) =>
          /\ last'.result = "Degraded"
          /\ UNCHANGED <<meta_store, blob_store>>]_vars

C22_ThrottledRefusesIngestOnly ==
    [][(runtime.throttled /\ ~runtime.degraded) =>
          /\ last'.op = "ingest" =>
                /\ last'.result = "Throttled"
                /\ UNCHANGED <<meta_store, blob_store>>
          /\ last'.op = "query" =>
                \E q \in ServiceQueries :
                    last'.result = query_finalized(meta_store, blob_store, q[1],
                                                   [max_results |-> q[2]],
                                                   q[3].max_or_terms, q[3].policy).err
          /\ last'.op = "maintenance" =>
                \E failAt \in 0..run_periodic_maintenance(meta_store, blob_store,
                                                          WriterEpoch, 0).call.puts :
                    LET r == run_periodic_maintenance(meta_store, blob_store,
                                                      WriterEpoch, failAt)
                    IN /\ last'.result = r.call.err
                       /\ meta_store' = r.call.meta
                       /\ blob_store' = r.call.blob
          /\ last'.op = "gc" =>
                /\ last'.result = "Ok"
                /\ meta_store' = run_once(meta_store, blob_store, svc_config).meta
                /\ blob_store' = run_once(meta_store, blob_store, svc_config).blob]_vars

(* A throttled service has refused an ingest *)
C22_IngestThrottled ==
    /\ runtime.throttled
    /\ ~runtime.degraded
    /\ last.op = "ingest"
    /\ last.result = "Throttled"

(* C23, as stated: every request operation that returns a Backend error    *)
(* increments the backend-error counter; the service is throttled when the *)
(* count reaches backend_error_throttle_after and degraded when it reaches *)
(* backend_error_degraded_after.                                           *)
C23_EveryBackendErrorCounted ==
    [][(last'.op \in RequestOps /\ last'.result = "Backend") =>
          LET count == runtime'.consecutive_backend_errors
          IN /\ count = runtime.consecutive_backend_errors + 1
             /\ count >= svc_config.backend_error_degraded_after => runtime'.degraded
             /\ (/\ count >= svc_config.backend_error_throttle_after
                 /\ count < svc_config.backend_error_degraded_after) =>
                    runtime'.throttled]_vars

(* C24, as stated: every admitted request operation that returns Ok resets *)
(* the backend-error counter to 0 and, unless the service is degraded,     *)
(* leaves it unthrottled, that is healthy.                                 *)
C24_SuccessResetsAndUnthrottles ==
    [][(last'.op \in RequestOps /\ last'.result = "Ok") =>
          /\ runtime'.consecutive_backend_errors = 0
          /\ ~runtime'.degraded => health(runtime').healthy]_vars

-----------------------------------------------------------------------------
(* Long runs: the rolling topic0 statistics and the topic0_log mode of a   *)
(* signature over runs of blocks as long as the ratio thresholds need      *)

(* Bounds of the long runs *)
MaxSignedBlocks == 12
ColdRunBlocks == 1200

(* The payloads upstream delivers in a long run: blocks with one log of    *)
(* signature 10, then blocks without logs.  Past MaxSignedBlocks the run   *)
(* goes on, up to ColdRunBlocks, when at most its first block has a log.   *)
RunPayloads(block_num) ==
    IF block_num \in DOMAIN chain THEN {chain[block_num]}
    ELSE IF /\ block_num <= base + MaxSignedBlocks
            /\ { k \in DOMAIN chain : chain[k] # <<LogA>> } = {}
    THEN {<<>>, <<LogA>>}
    ELSE {<<>>}

(* ingest_finalized_block(block, epoch) of the next block of the run, or   *)
(* of the block whose ingest failed                                        *)
RunIngest(payload, failAt) ==
    LET Returned(r, block_num) ==
            /\ meta_store' = r.meta
            /\ blob_store' = r.blob
            /\ chain' = (block_num :> payload) @@ chain
            /\ last' = [op |-> "ingest", block_num |-> block_num,
                        parent_hash |-> BlockHash(block_num - 1), result |-> r.err]
        Call(block_num) ==
            /\ block_num <= base + ColdRunBlocks
            /\ block_num > base + MaxSignedBlocks =>
                  /\ failAt = 0 /\ faults = 0
                  /\ { k \in DOMAIN chain : k > base + 1 /\ chain[k] # <<>> } = {}
            /\ Returned(ingest_finalized_block(meta_store, blob_store,
                                               mk_block(block_num, BlockHash(block_num - 1),
                                                        payload),
                                               WriterEpoch, failAt),
                        block_num)
    IN /\ failAt > 0 => faults < MaxFaults
       /\ faults' = IF failAt > 0 THEN faults + 1 ELSE faults
       /\ Call(HeadOf(meta_store) + 1)
       /\ UNCHANGED <<config, now, base, maint_runs, appended>>
       /\ UNCHANGED aux

InitTopic0 ==
    /\ base \in BaseHeads
    /\ config \in { c \in Configs : c.target_entries_per_chunk = 2 }
    /\ InitStores
    /\ runtime = RuntimeDefault
    /\ svc_config = DefaultServiceConfig
    /\ InitCalls

NextTopic0 ==
    \E payload \in RunPayloads(HeadOf(meta_store) + 1) :
       \E failAt \in 0..IngestPuts(HeadOf(meta_store) + 1, BlockHash(HeadOf(meta_store)),
                                   payload) :
          RunIngest(payload, failAt)

SpecTopic0 == InitTopic0 /\ [][NextTopic0]_vars

(* The run of the cold-signature scenario: from an empty index, block 1    *)
(* carries the signature and the blocks after it carry no log              *)
ColdRunDone ==
    /\ base = 0
    /\ CommittedHead = base + ColdRunBlocks
    /\ chain[base + 1] = <<LogA>>
    /\ { k \in DOMAIN chain : k > base + 1 /\ chain[k] # <<>> } = {}

(* C27: for a signature that occurs only in block 1 of a run of            *)
(* ColdRunBlocks blocks, after all the blocks are ingested the topic0_mode *)
(* record of the signature exists with log_enabled = true and              *)
(* enabled_from_block at or after block 1000, the block at which the       *)
(* in-window ratio first falls below the enable threshold.                 *)
C27_ColdSignatureEnabled ==
    ColdRunDone
    => LET rec == get(meta_store, "topic0_mode", LogA.topics[1])
       IN /\ rec # NoRec
          /\ rec.value.log_enabled
          /\ rec.value.enabled_from_block >= EnableRatioDen

(* An ingest that returned Ok for a block that contains the signature     *)
(* while the stored mode of the signature was enabled                      *)
HotIngestStep ==
    /\ last'.op = "ingest"
    /\ last'.result = "Ok"
    /\ chain'[last'.block_num] = <<LogA>>
    /\ get(meta_store, "topic0_mode", LogA.topics[1]) # NoRec
    /\ get(meta_store, "topic0_mode", LogA.topics[1]).value.log_enabled

(* C28: when the mode of a signature is enabled, an ingest of a block that *)
(* contains the signature and leaves blocks_seen_in_window /               *)
(* min(window_len, block_num + 1) above 0.01 stores the mode with          *)
(* log_enabled = false, and while the ratio is within [0.001, 0.01] the    *)
(* mode is left unchanged.                                                 *)
C28_HotSignatureDisabled ==
    [][HotIngestStep
       => LET stats == get(meta_store', "topic0_stats", LogA.topics[1]).value
              denom == Max({Min({stats.window_len, last'.block_num + 1}), 1})
              mode0 == get(meta_store, "topic0_mode", LogA.topics[1]).value
              mode1 == get(meta_store', "topic0_mode", LogA.topics[1]).value
          IN /\ stats.blocks_seen_in_window * DisableRatioDen > denom
                  => ~mode1.log_enabled
             /\ (/\ stats.blocks_seen_in_window * EnableRatioDen >= denom
                 /\ stats.blocks_seen_in_window * DisableRatioDen <= denom)
                  => mode1 = mode0]_vars

-----------------------------------------------------------------------------
(* Codecs of the chunk blobs and of the tail records (codec/chunk.rs,      *)
(* codec/manifest.rs), over byte sequences.  In SpecCodec the stores hold  *)
(* the encoded bytes of one chunk blob and of one tail record.             *)

Byte == 0..255

(* A u32 is the pair of its high and its low 16 bits, so that every value  *)
(* of the four bytes of a field is a value of the model.                   *)
u32(n) == <<(n \div 65536) % 65536, n % 65536>>

(* to_be_bytes / from_be_bytes of a u32, to_le_bytes / from_le_bytes of    *)
(* a u16 and of a u32                                                      *)
to_be_bytes(w) == <<w[1] \div 256, w[1] % 256, w[2] \div 256, w[2] % 256>>

from_be_bytes(b, at) == <<b[at] * 256 + b[at + 1], b[at + 2] * 256 + b[at + 3]>>

le16(n) == <<n % 256, (n \div 256) % 256>>

le32(w) == <<w[2] % 256, w[2] \div 256, w[1] % 256, w[1] \div 256>>

from_le16(b, at) == b[at] + b[at + 1] * 256

from_le32(b, at) == <<b[at + 2] + b[at + 3] * 256, b[at] + b[at + 1] * 256>>

RECURSIVE le16_all(_)
le16_all(values) ==
    IF values = <<>> THEN <<>> ELSE le16(Head(values)) \o le16_all(Tail(values))

(* RoaringBitmap::serialize_into for ids below 65536: the cookie of the    *)
(* layout without run containers, the number of containers, then for the   *)
(* one array container its key and cardinality - 1, the offset of its      *)
(* data, and its values in ascending order as little-endian u16.           *)
serialize_into(bitmap) ==
    IF bitmap = {} THEN le32(u32(12346)) \o le32(u32(0))
    ELSE le32(u32(12346)) \o le32(u32(1))
         \o le16(0) \o le16(Cardinality(bitmap) - 1)
         \o le32(u32(16))
         \o le16_all(SortedNums(bitmap))

RoaringErr == [ok |-> FALSE, bitmap |-> {}]

RoaringOk(bitmap) == [ok |-> TRUE, bitmap |-> bitmap]

(* RoaringBitmap::deserialize_from, as the set of the results a build can  *)
(* give.  The reader fails on an unknown cookie and when the bytes end     *)
(* before the headers or the values do; the offsets are skipped and bytes  *)
(* after the last container are not read.  Whether values out of order     *)
(* are refused depends on the version of the library in the build.  A      *)
(* record in scope is too short for two containers or a bitmap container.  *)
(* The ids read are u32 pairs: the key of the container and the value.     *)
deserialize_from(bytes) ==
    LET len == Len(bytes)
        Container(key, cardinality) ==
            LET values == [i \in 1..cardinality |-> from_le16(bytes, 17 + 2 * (i - 1))]
                ids == { <<key, values[i]>> : i \in 1..cardinality }
            IN IF \A i \in 1..(cardinality - 1) : values[i] < values[i + 1]
               THEN {RoaringOk(ids)}
               ELSE {RoaringErr, RoaringOk(ids)}
        Containers(size) ==
            IF size[1] > 0 \/ len < 8 + 8 * size[2] THEN {RoaringErr}
            ELSE IF size[2] = 0 THEN {RoaringOk({})}
            ELSE IF size[2] > 1 \/ from_le16(bytes, 11) + 1 > 4096 THEN {RoaringErr}
            ELSE IF len < 16 + 2 * (from_le16(bytes, 11) + 1) THEN {RoaringErr}
            ELSE Container(from_le16(bytes, 9), from_le16(bytes, 11) + 1)
    IN IF len < 4 THEN {RoaringErr}
       ELSE IF from_le32(bytes, 1) # u32(12346) THEN {RoaringErr}
       ELSE IF len < 8 THEN {RoaringErr}
       ELSE Containers(from_le32(bytes, 5))

(* DefaultHasher over the payload, truncated to 32 bits.  The model has a  *)
(* checksum of the length and of every byte with its position, which, as   *)
(* the hash does for the records in scope, changes with every change of    *)
(* one byte.                                                               *)
crc32_like(bytes) ==
    u32(Len(bytes) + SumOver([i \in DOMAIN bytes |-> bytes[i] * (2 * i + 1)], DOMAIN bytes))

(* The ChunkBlob the ingest engine seals from a tail *)
chunk_of(tail) ==
    [min_local |-> Min(tail), max_local |-> Max(tail), count |-> Cardinality(tail),
     bitmap |-> tail]

encode_chunk(blob) ==
    LET Out(payload) ==
            <<1>> \o to_be_bytes(u32(blob.min_local)) \o to_be_bytes(u32(blob.max_local))
                  \o to_be_bytes(u32(blob.count)) \o to_be_bytes(crc32_like(payload))
                  \o payload
    IN Out(serialize_into(blob.bitmap))

Decoded(value) == [err |-> "Ok", value |-> value]

DecodeFailed(err) == [err |-> err, value |-> NoRec]

(* decode_chunk(bytes): the results the read can give *)
decode_chunk(bytes) ==
    LET Checked(payload, crc32) ==
            IF crc32 # crc32_like(payload) THEN {DecodeFailed("Decode")}
            ELSE { IF r.ok
                   THEN Decoded([min_local |-> from_be_bytes(bytes, 2),
                                 max_local |-> from_be_bytes(bytes, 6),
                                 count |-> from_be_bytes(bytes, 10),
                                 crc32 |-> crc32,
                                 bitmap |-> r.bitmap])
                   ELSE DecodeFailed("Backend") : r \in deserialize_from(payload) }
    IN IF Len(bytes) < 17 THEN {DecodeFailed("Decode")}
       ELSE IF bytes[1] # 1 THEN {DecodeFailed("Decode")}
       ELSE Checked(SubSeq(bytes, 18, Len(bytes)), from_be_bytes(bytes, 14))

encode_tail(entries) == <<1>> \o serialize_into(entries)

(* decode_tail(bytes): the results the read can give *)
decode_tail(bytes) ==
    IF bytes = <<>> THEN {DecodeFailed("Decode")}
    ELSE IF bytes[1] # 1 THEN {DecodeFailed("Decode")}
    ELSE { IF r.ok THEN Decoded(r.bitmap) ELSE DecodeFailed("Backend") :
             r \in deserialize_from(SubSeq(bytes, 2, Len(bytes))) }

(* The ids of the stream whose records are stored *)
CodecTails == { {3}, {3, 7}, {1, 2, 300} }

CodecStream == stream_id("addr", 1, 0)

CodecChunkKey == chunk_blob_key(CodecStream, 1)

StoredChunk == blob_store[CodecChunkKey]

StoredTail == meta_store.inner["tails"][CodecStream].value

(* A byte sequence with one byte changed.  The values that would turn the  *)
(* cookie of a tail into the cookie of the layout with run containers,     *)
(* which the model does not read, are left out.                            *)
Changes(bytes, first_payload_byte) ==
    { [bytes EXCEPT ![i] = b] : i \in DOMAIN bytes, b \in Byte } \ 
    ({bytes} \cup { c \in { [bytes EXCEPT ![i] = b] :
                              i \in first_payload_byte..(first_payload_byte + 1),
                              b \in Byte } :
                      from_le16(c, first_payload_byte) = 12347 })

(* Something outside the service overwrites one byte of the chunk blob *)
CorruptChunk ==
    /\ faults = 0
    /\ \E changed \in Changes(StoredChunk, 18) :
          /\ blob_store' = (CodecChunkKey :> changed)
          /\ last' = [op |-> "corrupt", record |-> "chunk", result |-> "Ok", value |-> NoRec]
    /\ faults' = 1
    /\ UNCHANGED <<meta_store, config, now, base, chain, maint_runs, appended>>
    /\ UNCHANGED aux

(* Something outside the service overwrites one byte of the tail record *)
CorruptTail ==
    /\ faults = 0
    /\ \E changed \in Changes(StoredTail, 2) :
          /\ meta_store' = [meta_store EXCEPT !.inner["tails"][CodecStream].value = changed]
          /\ last' = [op |-> "corrupt", record |-> "tail", result |-> "Ok", value |-> NoRec]
    /\ faults' = 1
    /\ UNCHANGED <<blob_store, config, now, base, chain, maint_runs, appended>>
    /\ UNCHANGED aux

(* load_chunk_if_present / load_chunk of the stored blob *)
ReadChunk ==
    /\ \E r \in decode_chunk(StoredChunk) :
          last' = [op |-> "decode_chunk", record |-> "chunk", result |-> r.err,
                   value |-> r.value]
    /\ UNCHANGED <<meta_store, blob_store, config, now, base, chain, faults, maint_runs,
                   appended>>
    /\ UNCHANGED aux

(* load_tail of the stored record *)
ReadTail ==
    /\ \E r \in decode_tail(StoredTail) :
          last' = [op |-> "decode_tail", record |-> "tail", result |-> r.err,
                   value |-> r.value]
    /\ UNCHANGED <<meta_store, blob_store, config, now, base, chain, faults, maint_runs,
                   appended>>
    /\ UNCHANGED aux

(* The stores after a seal and a later append of the same ids under test *)
InitCodec ==
    /\ base = 0
    /\ config \in { c \in Configs : c.target_entries_per_chunk = 2 }
    /\ \E tail \in CodecTails :
          /\ blob_store = (CodecChunkKey :> encode_chunk(chunk_of(tail)))
          /\ meta_store =
                [StoreAfterEmptyBlocks(0) EXCEPT
                    !.inner["tails"] =
                        (CodecStream :> [value |-> encode_tail(tail), version |-> 1])]
    /\ now = 1
    /\ chain = <<>>
    /\ faults = 0
    /\ maint_runs = 0
    /\ appended = {}
    /\ last = [op |-> "init", record |-> "none", result |-> "Ok", value |-> NoRec]
    /\ runtime = RuntimeDefault
    /\ svc_config = DefaultServiceConfig
    /\ InitCalls

NextCodec == CorruptChunk \/ CorruptTail \/ ReadChunk \/ ReadTail

SpecCodec == InitCodec /\ [][NextCodec]_vars

(* The record that was changed: the tail when the metadata store differs   *)
(* from the one after construction, else the chunk blob                    *)
ChunkChanged == faults = 1 /\ meta_store = meta_store0

TailChanged == faults = 1 /\ meta_store # meta_store0

(* C29: after any single byte of the stored chunk blob or of the stored    *)
(* tail record is changed, the read of that record (decode_chunk,          *)
(* decode_tail) fails with a Decode error.                                 *)
C29_ByteChangeIsDecodeError ==
    /\ (ChunkChanged /\ last.op = "decode_chunk") => last.result = "Decode"
    /\ (TailChanged /\ last.op = "decode_tail") => last.result = "Decode"

-----------------------------------------------------------------------------
(* Store clients: put and delete calls that run concurrently against one   *)
(* metadata store, step by step (store/meta.rs, store/fs.rs)               *)

MaxEpoch == 2

Epochs == 0..MaxEpoch

CAS_KEY == "meta/cas_race"

(* What the store clients leave alone *)
engine_vars ==
    <<blob_store, config, now, base, chain, faults, maint_runs, appended, last, runtime,
      svc_config, sealers, gc>>

(* FsMetaStore keeps a value file and a version file per key; the value    *)
(* of a key whose value file does not exist                                *)
NoFile == -1

(* FsMetaStore::get: None without the value file, version 0 without the    *)
(* version file                                                            *)
fs_get(ms, ns, key) ==
    IF key \notin DOMAIN ms.inner[ns] THEN NoRec
    ELSE IF ms.inner[ns][key].value = NoFile THEN NoRec
    ELSE ms.inner[ns][key]

(* write_file_bytes(&kp, &value) *)
fs_write_value(ms, ns, key, value) ==
    [ms EXCEPT !.inner[ns] =
        (key :> [value |-> value,
                 version |-> IF key \in DOMAIN @ THEN @[key].version ELSE 0]) @@ @]

(* write_file_bytes(&vp, &next_version) *)
fs_write_version(ms, ns, key, next_version) ==
    [ms EXCEPT !.inner[ns] =
        (key :> [value |-> IF key \in DOMAIN @ THEN @[key].value ELSE NoFile,
                 version |-> next_version]) @@ @]

(* get of the adapter in use *)
adapter_get(ms, ns, key) ==
    IF adapter = "fs" THEN fs_get(ms, ns, key) ELSE get(ms, ns, key)

(* set_min_epoch(min_epoch) *)
set_min_epoch(ms, min_epoch) == [ms EXCEPT !.min_epoch = min_epoch]

(* The call returns *)
Return(call, err, applied) ==
    [call EXCEPT !.pc = "done", !.err = err, !.applied = applied]

(* A client calls put(key, value, cond, fence) or delete(key, cond, fence) *)
StoreCall(c, op, value, cond, fence) ==
    /\ clients[c].pc = "idle"
    /\ clients' = [clients EXCEPT ![c] =
                      [pc |-> "validate", op |-> op, key |-> CAS_KEY, value |-> value,
                       cond |-> cond, fence |-> fence, current |-> NoRec, err |-> "Ok",
                       applied |-> FALSE]]
    /\ UNCHANGED <<meta_store, meta_store0, adapter>>
    /\ UNCHANGED engine_vars

PutCall ==
    \E c \in Clients, fence \in Epochs :
      \E cond \in {CondAny, CondIfAbsent, CondIfVersion(1)} :
        StoreCall(c, "put", c, cond, fence)

DeleteCall ==
    \E c \in Clients, fence \in Epochs :
      \E cond \in {DelAny, DelIfVersion(1)} :
        StoreCall(c, "delete", 0, cond, fence)

(* self.validate_fence(fence)? *)
Validate(c) ==
    /\ clients[c].pc = "validate"
    /\ clients' = [clients EXCEPT ![c] =
                      IF ~validate_fence(meta_store, clients[c].fence)
                      THEN Return(@, "LeaseLost", FALSE)
                      ELSE [@ EXCEPT !.pc = IF adapter = "memory" THEN "locked"
                                            ELSE "read"]]
    /\ UNCHANGED <<meta_store, meta_store0, adapter>>
    /\ UNCHANGED engine_vars

(* InMemoryMetaStore: the rest of put or delete, under the write lock *)
Locked(c) ==
    LET call == clients[c]
        Done(r, applied) ==
            /\ meta_store' = r.store
            /\ clients' = [clients EXCEPT ![c] = Return(@, r.err, applied)]
    IN /\ adapter = "memory"
       /\ call.pc = "locked"
       /\ IF call.op = "put"
          THEN Done(put_locked(meta_store, "state", call.key, call.value, call.cond),
                    put_locked(meta_store, "state", call.key, call.value, call.cond).applied)
          ELSE Done(delete_locked(meta_store, "state", call.key, call.cond),
                    should_delete(call.cond, get(meta_store, "state", call.key)))
       /\ UNCHANGED <<meta_store0, adapter>>
       /\ UNCHANGED engine_vars

(* FsMetaStore: let current = self.get(key) and the check of the condition *)
FsRead(c) ==
    LET call == clients[c]
        Checked(current) ==
            clients' = [clients EXCEPT ![c] =
                IF call.op = "put"
                THEN IF put_allowed(call.cond, current)
                     THEN [@ EXCEPT !.pc = "write_value", !.current = current]
                     ELSE Return([@ EXCEPT !.current = current], "Ok", FALSE)
                ELSE IF should_delete(call.cond, current)
                     THEN [@ EXCEPT !.pc = "remove", !.current = current]
                     ELSE Return([@ EXCEPT !.current = current], "Ok", FALSE)]
    IN /\ adapter = "fs"
       /\ call.pc = "read"
       /\ Checked(fs_get(meta_store, "state", call.key))
       /\ UNCHANGED <<meta_store, meta_store0, adapter>>
       /\ UNCHANGED engine_vars

(* FsMetaStore::put: the value file is written *)
FsWriteValue(c) ==
    /\ adapter = "fs"
    /\ clients[c].pc = "write_value"
    /\ meta_store' = fs_write_value(meta_store, "state", clients[c].key, clients[c].value)
    /\ clients' = [clients EXCEPT ![c].pc = "write_version"]
    /\ UNCHANGED <<meta_store0, adapter>>
    /\ UNCHANGED engine_vars

(* FsMetaStore::put: the version file is written and the call returns *)
FsWriteVersion(c) ==
    /\ adapter = "fs"
    /\ clients[c].pc = "write_version"
    /\ meta_store' = fs_write_version(meta_store, "state", clients[c].key,
                                      IF clients[c].current = NoRec THEN 1
                                      ELSE clients[c].current.version + 1)
    /\ clients' = [clients EXCEPT ![c] = Return(@, "Ok", TRUE)]
    /\ UNCHANGED <<meta_store0, adapter>>
    /\ UNCHANGED engine_vars

(* FsMetaStore::delete: both files are removed and the call returns *)
FsRemove(c) ==
    /\ adapter = "fs"
    /\ clients[c].pc = "remove"
    /\ meta_store' = remove_key(meta_store, "state", clients[c].key)
    /\ clients' = [clients EXCEPT ![c] = Return(@, "Ok", TRUE)]
    /\ UNCHANGED <<meta_store0, adapter>>
    /\ UNCHANGED engine_vars

(* An operator calls set_min_epoch on the in-memory store *)
SetMinEpoch ==
    \E e \in Epochs :
        /\ adapter = "memory"
        /\ e # meta_store.min_epoch
        /\ meta_store' = set_min_epoch(meta_store, e)
        /\ UNCHANGED <<meta_store0, adapter, clients>>
        /\ UNCHANGED engine_vars


(* The key is absent or holds a record at version 1 *)
StorePresets ==
    { EmptyInner,
      [EmptyInner EXCEPT !["state"] = (CAS_KEY :> [value |-> 0, version |-> 1])] }

InitStore ==
    /\ base = 0
    /\ config \in { c \in Configs : c.target_entries_per_chunk = 1 }
    /\ adapter \in {"memory", "fs"}
    /\ meta_store \in { [inner |-> i, min_epoch |-> e] : i \in StorePresets, e \in Epochs }
    /\ meta_store0 = meta_store
    /\ clients = [c \in Clients |-> IdleCall]
    /\ InitWorkers
    /\ InitRun
    /\ runtime = RuntimeDefault
    /\ svc_config = DefaultServiceConfig

NextStore ==
    \/ PutCall
    \/ DeleteCall
    \/ \E c \in Clients : Validate(c)
    \/ \E c \in Clients : Locked(c)
    \/ \E c \in Clients : FsRead(c)
    \/ \E c \in Clients : FsWriteValue(c)
    \/ \E c \in Clients : FsWriteVersion(c)
    \/ \E c \in Clients : FsRemove(c)
    \/ SetMinEpoch

SpecStore == InitStore /\ [][NextStore]_vars

(* C15: a put or delete whose fence is below min_epoch when the store      *)
(* validates it returns LeaseLost and leaves the store unchanged; a call   *)
(* that returned LeaseLost never took a step that writes.                  *)
C15_StaleFenceLeaseLost ==
    [][\A c \in Clients :
          /\ (clients[c].pc = "validate" /\ clients'[c] # clients[c]
              /\ clients[c].fence < meta_store.min_epoch)
                 => /\ clients'[c].pc = "done"
                    /\ clients'[c].err = "LeaseLost"
                    /\ ~clients'[c].applied
                    /\ meta_store' = meta_store
          /\ (clients[c].pc # "idle" /\ clients'[c] # clients[c]
              /\ meta_store'.inner # meta_store.inner)
                 => clients'[c].err # "LeaseLost"]_vars

(* A put and a delete were both refused with LeaseLost while the key held  *)
(* a record                                                                *)
C15_BothRefused ==
    /\ \E c \in Clients :
          clients[c].pc = "done" /\ clients[c].op = "put" /\ clients[c].err = "LeaseLost"
    /\ \E c \in Clients :
          clients[c].pc = "done" /\ clients[c].op = "delete" /\ clients[c].err = "LeaseLost"
    /\ adapter_get(meta_store, "state", CAS_KEY) # NoRec
    /\ meta_store.inner = meta_store0.inner

(* C16, as stated: a write carrying an epoch above min_epoch raises        *)
(* min_epoch to that epoch in the same step, and once a writer at epoch e2 *)
(* has written, every put or delete validated later with a fence e1 < e2   *)
(* returns LeaseLost.                                                      *)
C16_WriteRaisesMinEpoch ==
    [][\A c \in Clients :
          /\ (clients[c].pc # "done" /\ clients'[c].pc = "done" /\ clients'[c].applied)
                 => meta_store'.min_epoch >= clients[c].fence
          /\ (clients[c].pc = "validate" /\ clients'[c] # clients[c]
              /\ \E w \in Clients :
                    /\ clients[w].pc = "done" /\ clients[w].applied
                    /\ clients[c].fence < clients[w].fence)
                 => clients'[c].err = "LeaseLost"]_vars

(* Two puts on the key with the same condition, which the record before    *)
(* the calls satisfies, have both returned                                 *)
CasRace(a, b) ==
    /\ a # b
    /\ clients[a].pc = "done" /\ clients[b].pc = "done"
    /\ clients[a].op = "put" /\ clients[b].op = "put"
    /\ clients[a].err = "Ok" /\ clients[b].err = "Ok"
    /\ clients[a].cond = clients[b].cond
    /\ clients[a].cond.kind \in {"IfAbsent", "IfVersion"}
    /\ put_allowed(clients[a].cond, adapter_get(meta_store0, "state", CAS_KEY))

(* C17, as stated: in every adapter, of two puts on one key with the same  *)
(* condition IfAbsent (key absent) or IfVersion(v) (key at version v)      *)
(* exactly one returns applied = true, the stored value is the winner's,   *)
(* and the version has advanced by exactly one.                            *)
C17_SingleCasWinner ==
    \A a, b \in Clients :
        CasRace(a, b) =>
            /\ clients[a].applied # clients[b].applied
            /\ adapter_get(meta_store, "state", CAS_KEY) # NoRec
            /\ adapter_get(meta_store, "state", CAS_KEY).value =
                   (IF clients[a].applied THEN clients[a].value ELSE clients[b].value)
            /\ adapter_get(meta_store, "state", CAS_KEY).version =
                   (IF adapter_get(meta_store0, "state", CAS_KEY) = NoRec THEN 0
                    ELSE adapter_get(meta_store0, "state", CAS_KEY).version) + 1

-----------------------------------------------------------------------------
(* Concurrent sealers and the GC pass: apply_stream_appends as called by   *)
(* ingest and by maintenance, and GcWorker::run_once, one store call at a  *)
(* time against the same stores (ingest/engine.rs, gc/worker.rs)           *)

MaxAppendCalls == 4
MaxFlushCalls == 1
MaxGcRuns == 1

(* The stream the calls work on: the address stream of LogA *)
SealedStream == stream_id("addr", LogA.address, 0)

(* What the sealers and the GC pass leave alone *)
gc_others ==
    <<config, now, base, chain, faults, maint_runs, appended, last, runtime, svc_config,
      adapter, meta_store0, clients>>

(* The manifest after the seal of `tail` (engine.rs 209-237) *)
sealed_manifest(manifest, tail, now_unix_sec) ==
    [manifest EXCEPT
       !.last_chunk_seq = manifest.last_chunk_seq + 1,
       !.approx_count = @ + Cardinality(tail),
       !.last_seal_unix_sec = now_unix_sec,
       !.chunk_refs = Append(@, [chunk_seq |-> manifest.last_chunk_seq + 1,
                                 min_local |-> Min(tail), max_local |-> Max(tail),
                                 count |-> Cardinality(tail)])]

(* The chunk sealed from `tail` *)
sealed_chunk(tail) ==
    [min_local |-> Min(tail), max_local |-> Max(tail), count |-> Cardinality(tail),
     bitmap |-> tail]

(* apply_stream_appends is called: by ingest with the next local id, by    *)
(* maintenance with no value for a stream that has a tail key              *)
SealerCall(s) ==
    /\ sealers[s].pc = "idle"
    /\ IF s = "ingest" THEN sealers[s].calls < MaxAppendCalls
       ELSE /\ sealers[s].calls < MaxFlushCalls
            /\ SealedStream \in list_prefix(meta_store, "tails")
    /\ sealers' = [sealers EXCEPT ![s] =
                      [@ EXCEPT !.pc = "load_manifest", !.calls = @ + 1,
                                !.values = IF s = "ingest" THEN {sealers[s].ok} ELSE {},
                                !.chunk = NoRec]]
    /\ UNCHANGED <<meta_store, blob_store, gc>>
    /\ UNCHANGED gc_others

(* let (mut manifest, manifest_version) = self.load_manifest(stream) *)
SealerLoadManifest(s) ==
    LET Loaded(lm) ==
            sealers' = [sealers EXCEPT ![s] =
                           [@ EXCEPT !.pc = "load_tail", !.manifest = lm.manifest,
                                     !.manifest_version = lm.version]]
    IN /\ sealers[s].pc = "load_manifest"
       /\ Loaded(load_manifest(meta_store, SealedStream))
       /\ UNCHANGED <<meta_store, blob_store, gc>>
       /\ UNCHANGED gc_others

(* load_tail, the inserts, now_unix_sec() and should_seal *)
SealerLoadTail(s) ==
    LET Decided(tail) ==
            sealers' = [sealers EXCEPT ![s] =
                IF should_seal(tail, sealers[s].manifest.last_seal_unix_sec, now)
                THEN [@ EXCEPT !.pc = "put_blob",
                               !.chunk = sealed_chunk(tail),
                               !.manifest = sealed_manifest(@, tail, now),
                               !.tail = {}]
                ELSE [@ EXCEPT !.pc = "store_manifest", !.tail = tail]]
    IN /\ sealers[s].pc = "load_tail"
       /\ Decided(load_tail(meta_store, SealedStream) \cup sealers[s].values)
       /\ UNCHANGED <<meta_store, blob_store, gc>>
       /\ UNCHANGED gc_others

(* self.blob_store.put_blob(&chunk_blob_key(stream, chunk_seq), chunk) *)
SealerPutBlob(s) ==
    /\ sealers[s].pc = "put_blob"
    /\ blob_store' = put_blob(blob_store,
                              chunk_blob_key(SealedStream,
                                             sealers[s].manifest.last_chunk_seq),
                              sealers[s].chunk)
    /\ sealers' = [sealers EXCEPT ![s].pc = "store_manifest"]
    /\ UNCHANGED <<meta_store, gc>>
    /\ UNCHANGED gc_others

(* self.store_manifest(stream, &manifest, manifest_version, epoch)?: a     *)
(* lost race ends the call with CasConflict                                *)
SealerStoreManifest(s) ==
    LET Stored(r) ==
            /\ meta_store' = r.store
            /\ sealers' = [sealers EXCEPT ![s].pc = IF r.applied THEN "store_tail"
                                                    ELSE "idle"]
    IN /\ sealers[s].pc = "store_manifest"
       /\ Stored(put(meta_store, "manifests", SealedStream, sealers[s].manifest,
                     IF sealers[s].manifest_version = 0 THEN CondIfAbsent
                     ELSE CondIfVersion(sealers[s].manifest_version),
                     WriterEpoch))
       /\ UNCHANGED <<blob_store, gc>>
       /\ UNCHANGED gc_others

(* self.store_tail(stream, &tail, epoch)? and Ok(sealed) *)
SealerStoreTail(s) ==
    /\ sealers[s].pc = "store_tail"
    /\ meta_store' = put(meta_store, "tails", SealedStream, sealers[s].tail, CondAny,
                         WriterEpoch).store
    /\ sealers' = [sealers EXCEPT ![s] = [@ EXCEPT !.pc = "idle", !.ok = @ + 1]]
    /\ UNCHANGED <<blob_store, gc>>
    /\ UNCHANGED gc_others

(* run_once: list_prefix(b"manifests/") *)
GcListManifests ==
    /\ gc.pc = "idle"
    /\ gc.runs < MaxGcRuns
    /\ gc' = [IdleGc EXCEPT !.pc = "list_tails", !.runs = gc.runs + 1,
                            !.manifest_page = list_prefix(meta_store, "manifests")]
    /\ UNCHANGED <<meta_store, blob_store, sealers>>
    /\ UNCHANGED gc_others

(* run_once: list_prefix(b"tails/") *)
GcListTails ==
    /\ gc.pc = "list_tails"
    /\ gc' = [gc EXCEPT !.pc = "scan", !.tail_page = list_prefix(meta_store, "tails")]
    /\ UNCHANGED <<meta_store, blob_store, sealers>>
    /\ UNCHANGED gc_others

(* run_once: the manifests listed are read and their chunk refs collected *)
GcScan ==
    LET Scanned(r) ==
            gc' = [gc EXCEPT !.pc = "list_blobs", !.manifest_streams = r.manifest_streams,
                             !.referenced_chunks = r.referenced_chunks]
    IN /\ gc.pc = "scan"
       /\ Scanned(gc_scan_manifests(meta_store, gc.manifest_page))
       /\ UNCHANGED <<meta_store, blob_store, sealers>>
       /\ UNCHANGED gc_others

(* run_once: list_prefix(b"chunks/") *)
GcListBlobs ==
    /\ gc.pc = "list_blobs"
    /\ gc' = [gc EXCEPT !.pc = "sweep_blobs", !.blob_page = blob_list_prefix(blob_store)]
    /\ UNCHANGED <<meta_store, blob_store, sealers>>
    /\ UNCHANGED gc_others

(* run_once: the next listed chunk that is not in referenced_chunks is     *)
(* measured and deleted; after the last one the tail loop starts           *)
GcSweepBlob ==
    LET Swept(orphans) ==
            IF orphans = {}
            THEN /\ gc' = [gc EXCEPT !.pc = "sweep_tails", !.blob_page = {}]
                 /\ UNCHANGED blob_store
            ELSE LET Deleted(ck) ==
                         LET r == gc_sweep_blobs(blob_store, {ck}, gc.referenced_chunks,
                                                 gc.stats)
                         IN /\ blob_store' = r.blob
                            /\ gc' = [gc EXCEPT !.blob_page = orphans \ {ck},
                                                !.stats = r.stats]
                 IN Deleted(CHOOSE k \in orphans : TRUE)
    IN /\ gc.pc = "sweep_blobs"
       /\ Swept(gc.blob_page \ gc.referenced_chunks)
       /\ UNCHANGED <<meta_store, sealers>>
       /\ UNCHANGED gc_others

(* run_once: the next listed tail whose stream is not in manifest_streams  *)
(* is deleted; after the last one the pass returns its stats               *)
GcSweepTail ==
    LET Swept(stale) ==
            IF stale = {}
            THEN /\ gc' = [gc EXCEPT !.pc = "idle", !.tail_page = {},
                                     !.stats = gc_finish(gc.stats, svc_config)]
                 /\ UNCHANGED meta_store
            ELSE LET Deleted(tk) ==
                         LET r == gc_sweep_tails(meta_store, {tk}, gc.manifest_streams,
                                                 gc.stats)
                         IN /\ meta_store' = r.meta
                            /\ gc' = [gc EXCEPT !.tail_page = stale \ {tk},
                                                !.stats = r.stats]
                 IN Deleted(CHOOSE k \in stale : TRUE)
    IN /\ gc.pc = "sweep_tails"
       /\ Swept(gc.tail_page \ gc.manifest_streams)
       /\ UNCHANGED <<blob_store, sealers>>
       /\ UNCHANGED gc_others


InitGc ==
    /\ base = 0
    /\ config \in Configs
    /\ InitStores
    /\ runtime = RuntimeDefault
    /\ svc_config = DefaultServiceConfig
    /\ InitCalls

NextGc ==
    \/ \E s \in Sealers : SealerCall(s)
    \/ \E s \in Sealers : SealerLoadManifest(s)
    \/ \E s \in Sealers : SealerLoadTail(s)
    \/ \E s \in Sealers : SealerPutBlob(s)
    \/ \E s \in Sealers : SealerStoreManifest(s)
    \/ \E s \in Sealers : SealerStoreTail(s)
    \/ GcListManifests
    \/ GcListTails
    \/ GcScan
    \/ GcListBlobs
    \/ GcSweepBlob
    \/ GcSweepTail
    \/ Tick

SpecGc == InitGc /\ [][NextGc]_vars

(* The chunk keys referenced by the manifests stored in `ms` *)
ReferencedChunks(ms) ==
    gc_scan_manifests(ms, list_prefix(ms, "manifests")).referenced_chunks

(* What a GC pass over the stores as they are counts: the bytes of the     *)
(* chunks no manifest refers to, and the tails of streams with no manifest *)
OrphanChunkBytes ==
    LET orphans == blob_list_prefix(blob_store) \ ReferencedChunks(meta_store)
    IN SumOver([ck \in orphans |-> encode_chunk_len(blob_store[ck])], orphans)

StaleTailKeys ==
    Cardinality(list_prefix(meta_store, "tails") \ list_prefix(meta_store, "manifests"))

GuardrailExceeded ==
    \/ OrphanChunkBytes > svc_config.max_orphan_chunk_bytes
    \/ 0 > svc_config.max_orphan_manifest_segments
    \/ StaleTailKeys > svc_config.max_stale_tail_keys

(* C38: after run_gc_once returns Ok(stats), stats.exceeded_guardrail is   *)
(* true iff orphan_chunk_bytes > max_orphan_chunk_bytes or                 *)
(* orphan_manifest_segments > max_orphan_manifest_segments or              *)
(* stale_tail_keys > max_stale_tail_keys; if it is true the service is     *)
(* degraded under gc_guardrail_action = FailClosed and throttled under     *)
(* Throttle; if it is false the throttled flag is cleared and the degraded *)
(* flag is unchanged.                                                      *)
C38_GcGuardrailSetsTheFlags ==
    [][(last'.op = "gc" /\ last'.result = "Ok")
       => LET K(stats) ==
                  /\ stats.orphan_chunk_bytes = OrphanChunkBytes
                  /\ stats.stale_tail_keys = StaleTailKeys
                  /\ stats.orphan_manifest_segments = 0
                  /\ stats.exceeded_guardrail <=> GuardrailExceeded
          IN /\ K(run_once(meta_store, blob_store, svc_config).stats)
             /\ (GuardrailExceeded /\ svc_config.gc_guardrail_action = "FailClosed")
                => runtime'.degraded
             /\ (GuardrailExceeded /\ svc_config.gc_guardrail_action = "Throttle")
                => runtime'.throttled
             /\ ~GuardrailExceeded
                => /\ ~runtime'.throttled
                   /\ runtime'.degraded = runtime.degraded]_vars

(* run_gc_once returned Ok over an orphan chunk and the service, set to    *)
(* throttle, is throttled                                                  *)
C38_GcThrottledTheService ==
    /\ last.op = "gc" /\ last.result = "Ok"
    /\ svc_config.gc_guardrail_action = "Throttle"
    /\ runtime.throttled
    /\ faults > 0

(* C12, as stated: at the moment of each delete of a GC pass, the chunk    *)
(* blob deleted is referenced by no ChunkRef of a stored manifest, and the *)
(* stream of the tail deleted has no manifest record, whatever ingest and  *)
(* maintenance wrote in between.                                           *)
C12_GcDeletesOnlyUnreferenced ==
    [][/\ \A ck \in DOMAIN blob_store \ DOMAIN blob_store' :
             ck \notin ReferencedChunks(meta_store)
       /\ \A tk \in list_prefix(meta_store, "tails") \ list_prefix(meta_store', "tails") :
             get(meta_store, "manifests", tk) = NoRec]_vars

(* C13, as stated: every ChunkRef of a stored manifest has a chunk blob    *)
(* present at chunks/<stream>/<chunk_seq> whose entry count equals the     *)
(* ref's count.                                                            *)
C13_EveryRefHasItsBlob ==
    \A stream \in list_prefix(meta_store, "manifests") :
        LET refs == get(meta_store, "manifests", stream).value.chunk_refs
        IN \A i \in 1..Len(refs) :
              /\ chunk_blob_key(stream, refs[i].chunk_seq) \in DOMAIN blob_store
              /\ blob_store[chunk_blob_key(stream, refs[i].chunk_seq)].count = refs[i].count

(* C14, as stated: a ChunkRef installed in a manifest stays unchanged in   *)
(* every later version of the manifest, and the content of the chunk blob  *)
(* at its key does not change while the blob is there.                     *)
C14_SealedDataIsWriteOnce ==
    [][\A stream \in list_prefix(meta_store, "manifests") :
          LET refs == get(meta_store, "manifests", stream).value.chunk_refs
              refs2 == get(meta_store', "manifests", stream).value.chunk_refs
          IN /\ stream \in list_prefix(meta_store', "manifests")
             /\ Len(refs2) >= Len(refs)
             /\ \A i \in 1..Len(refs) :
                   /\ refs2[i] = refs[i]
                   /\ (chunk_blob_key(stream, refs[i].chunk_seq) \in DOMAIN blob_store
                       /\ chunk_blob_key(stream, refs[i].chunk_seq) \in DOMAIN blob_store')
                         => blob_store'[chunk_blob_key(stream, refs[i].chunk_seq)] =
                            blob_store[chunk_blob_key(stream, refs[i].chunk_seq)]]_vars

(* No sealer is in a call, every call made has returned Ok, maintenance    *)
(* has run and no GC pass has started                                      *)
SealersDoneWithoutConflict ==
    /\ \A s \in Sealers : sealers[s].pc = "idle" /\ sealers[s].ok = sealers[s].calls
    /\ sealers["maintenance"].calls > 0
    /\ sealers["ingest"].calls > 0
    /\ gc.runs = 0

(* C31: when a maintenance pass and the appends of ingest interleave one   *)
(* store call at a time under the same writer epoch and none of them       *)
(* returns CasConflict, every local id an append that returned Ok added to *)
(* the stream is in the tail or in a chunk of the stream after both are    *)
(* complete.                                                               *)
C31_NoLostTailUpdate ==
    SealersDoneWithoutConflict
    => \A id \in 0..(sealers["ingest"].ok - 1) :
          id \in StreamUnion(meta_store, blob_store, SealedStream)

-----------------------------------------------------------------------------
(* Concurrent ingests: two ingest_finalized_block calls for the next block *)
(* with the same payload, one store call at a time against the same stores *)
(* (ingest/engine.rs).  `clients` holds the position and the locals of     *)
(* each call.  The payloads hold at most one log, so that                  *)
(* collect_stream_appends reads the store once.                            *)

(* The two calls *)
Racers == {1, 2}

RacePayloads == { <<>>, <<LogA>> }

RaceBlock == mk_block(base + 1, BlockHash(base), chain[base + 1])

(* A call that has not yet read meta/state *)
RacerStart ==
    [pc |-> "load_state", result |-> "none", state |-> DefaultMetaState, state_version |-> 0,
     i |-> 1, appends |-> {}, streams |-> <<>>, sigs |-> <<>>,
     stats |-> NoRec, stats_version |-> 0, mode |-> NoRec,
     manifest |-> DefaultManifest, manifest_version |-> 0, tail |-> {}, chunk |-> NoRec]

race_others ==
    <<config, now, base, chain, faults, maint_runs, appended, last, runtime, svc_config,
      adapter, meta_store0, sealers, gc>>

(* Where the call goes on after the signature, or the stream, at hand *)
AfterSig(l) ==
    IF Len(l.sigs) > 1 THEN [l EXCEPT !.pc = "stats_get", !.sigs = Tail(@)]
    ELSE IF l.streams # <<>> THEN [l EXCEPT !.pc = "load_manifest", !.sigs = <<>>]
    ELSE [l EXCEPT !.pc = "store_state", !.sigs = <<>>]

AfterStream(l) ==
    IF Len(l.streams) > 1 THEN [l EXCEPT !.pc = "load_manifest", !.streams = Tail(@)]
    ELSE [l EXCEPT !.pc = "store_state", !.streams = <<>>]

Returns(l, err) == [l EXCEPT !.pc = "done", !.result = err]

(* let (state, state_version) = self.load_state() and the sequence test *)
RaceLoadState(p) ==
    LET Loaded(ls) ==
            clients' = [clients EXCEPT ![p] =
                IF ~sequence_ok(RaceBlock, ls.state.indexed_finalized_head + 1)
                THEN Returns([@ EXCEPT !.state = ls.state, !.state_version = ls.version],
                             "InvalidSequence")
                ELSE [@ EXCEPT !.pc = "check_parent", !.state = ls.state,
                               !.state_version = ls.version]]
    IN /\ clients[p].pc = "load_state"
       /\ Loaded(load_state(meta_store))
       /\ UNCHANGED <<meta_store, blob_store>>
       /\ UNCHANGED race_others

(* load_block_meta of the head and the parent test *)
RaceCheckParent(p) ==
    LET head == clients[p].state.indexed_finalized_head
        Checked(head_meta) ==
            clients' = [clients EXCEPT ![p] =
                IF head # 0 /\ head_meta = NoRec THEN Returns(@, "NotFound")
                ELSE IF ~parent_ok(RaceBlock, IF head = 0 THEN ZeroHash
                                              ELSE head_meta.value.block_hash)
                THEN Returns(@, "InvalidParent")
                ELSE [@ EXCEPT !.pc = IF RaceBlock.logs = <<>> THEN "put_block_meta"
                                      ELSE "put_logs",
                               !.i = 1]]
    IN /\ clients[p].pc = "check_parent"
       /\ Checked(load_block_meta(meta_store, head))
       /\ UNCHANGED <<meta_store, blob_store>>
       /\ UNCHANGED race_others

(* put of logs/<first_log_id + i> *)
RacePutLog(p) ==
    LET l == clients[p]
        Put(r) ==
            /\ meta_store' = r.meta
            /\ clients' = [clients EXCEPT ![p] =
                  IF l.i < Len(RaceBlock.logs) THEN [@ EXCEPT !.i = @ + 1]
                  ELSE [@ EXCEPT !.pc = "put_block_meta"]]
    IN /\ l.pc = "put_logs"
       /\ Put(meta_put(StartCall(meta_store, blob_store, 0), "logs",
                       l.state.next_log_id + (l.i - 1), encode_log(RaceBlock.logs[l.i]),
                       CondAny, WriterEpoch))
       /\ UNCHANGED blob_store
       /\ UNCHANGED race_others

(* put of block_meta/<block_num> *)
RacePutBlockMeta(p) ==
    LET l == clients[p]
        Put(r) ==
            /\ meta_store' = r.meta
            /\ clients' = [clients EXCEPT ![p].pc = "put_block_hash"]
    IN /\ l.pc = "put_block_meta"
       /\ Put(meta_put(StartCall(meta_store, blob_store, 0), "block_meta",
                       RaceBlock.block_num,
                       [block_hash |-> RaceBlock.block_hash,
                        parent_hash |-> RaceBlock.parent_hash,
                        first_log_id |-> l.state.next_log_id,
                        count |-> Len(RaceBlock.logs)],
                       CondAny, WriterEpoch))
       /\ UNCHANGED blob_store
       /\ UNCHANGED race_others

(* put of block_hash_to_num/<block_hash> *)
RacePutBlockHash(p) ==
    LET Put(r) ==
            /\ meta_store' = r.meta
            /\ clients' = [clients EXCEPT ![p].pc = "collect"]
    IN /\ clients[p].pc = "put_block_hash"
       /\ Put(meta_put(StartCall(meta_store, blob_store, 0), "block_hash_to_num",
                       RaceBlock.block_hash, RaceBlock.block_num, CondAny, WriterEpoch))
       /\ UNCHANGED blob_store
       /\ UNCHANGED race_others

(* collect_stream_appends up to the update of the topic0 modes: the        *)
(* appends of the log, with topic0_log_enabled read from the store         *)
RaceCollect(p) ==
    LET l == clients[p]
        Collected(appends) ==
            clients' = [clients EXCEPT ![p] =
                LET l1 == [l EXCEPT !.appends = appends,
                                    !.streams = SortedStreams({ a[1] : a \in appends }),
                                    !.sigs = SortedNums(Topic0Seen(RaceBlock))]
                IN IF l1.sigs # <<>> THEN [l1 EXCEPT !.pc = "stats_get"]
                   ELSE IF l1.streams # <<>> THEN [l1 EXCEPT !.pc = "load_manifest"]
                   ELSE [l1 EXCEPT !.pc = "store_state"]]
    IN /\ l.pc = "collect"
       /\ Collected(StreamAppendEntries(meta_store, RaceBlock, l.state.next_log_id))
       /\ UNCHANGED <<meta_store, blob_store>>
       /\ UNCHANGED race_others

(* update_one_topic0_stats: the get of the stats and the window steps *)
RaceStatsGet(p) ==
    LET l == clients[p]
        block_num == RaceBlock.block_num
        Got(rec) ==
            LET stats0 == IF rec = NoRec
                          THEN [window_len |-> WindowLen, blocks_seen_in_window |-> 0,
                                ring_cursor |-> 0,
                                last_updated_block |->
                                    IF block_num >= 1 THEN block_num - 1 ELSE 0,
                                ring_bits |-> {}]
                          ELSE rec.value
            IN clients' = [clients EXCEPT ![p] =
                  IF block_num <= stats0.last_updated_block THEN AfterSig(l)
                  ELSE [l EXCEPT !.pc = "stats_put",
                                 !.stats = WindowSteps(stats0, stats0.last_updated_block + 1,
                                                       block_num, TRUE),
                                 !.stats_version = IF rec = NoRec THEN 0 ELSE rec.version]]
    IN /\ l.pc = "stats_get"
       /\ Got(get(meta_store, "topic0_stats", Head(l.sigs)))
       /\ UNCHANGED <<meta_store, blob_store>>
       /\ UNCHANGED race_others

(* update_one_topic0_stats: the conditional put of the stats *)
RaceStatsPut(p) ==
    LET l == clients[p]
        Put(r) ==
            /\ meta_store' = r.meta
            /\ clients' = [clients EXCEPT ![p] =
                  IF r.applied THEN [l EXCEPT !.pc = "mode_get"] ELSE AfterSig(l)]
    IN /\ l.pc = "stats_put"
       /\ Put(meta_put(StartCall(meta_store, blob_store, 0), "topic0_stats", Head(l.sigs),
                       l.stats,
                       IF l.stats_version = 0 THEN CondIfAbsent
                       ELSE CondIfVersion(l.stats_version),
                       WriterEpoch))
       /\ UNCHANGED blob_store
       /\ UNCHANGED race_others

(* update_one_topic0_stats: the get of the mode and the ratio tests *)
RaceModeGet(p) ==
    LET l == clients[p]
        block_num == RaceBlock.block_num
        Got(mrec) ==
            LET mode0 == IF mrec = NoRec
                         THEN [log_enabled |-> FALSE, enabled_from_block |-> 0]
                         ELSE mrec.value
                denom == Max({Min({l.stats.window_len, block_num + 1}), 1})
                enable == ~mode0.log_enabled
                          /\ l.stats.blocks_seen_in_window * EnableRatioDen < denom
                disable == mode0.log_enabled
                           /\ l.stats.blocks_seen_in_window * DisableRatioDen > denom
            IN clients' = [clients EXCEPT ![p] =
                  [l EXCEPT !.pc = IF enable \/ disable THEN "mode_put" ELSE "mode_absent",
                            !.mode = IF enable
                                     THEN [log_enabled |-> TRUE,
                                           enabled_from_block |-> block_num]
                                     ELSE IF disable
                                     THEN [mode0 EXCEPT !.log_enabled = FALSE]
                                     ELSE mode0]]
    IN /\ l.pc = "mode_get"
       /\ Got(get(meta_store, "topic0_mode", Head(l.sigs)))
       /\ UNCHANGED <<meta_store, blob_store>>
       /\ UNCHANGED race_others

(* update_one_topic0_stats: self.meta_store.get(&mode_key).is_none() *)
RaceModeAbsent(p) ==
    LET l == clients[p]
    IN /\ l.pc = "mode_absent"
       /\ clients' = [clients EXCEPT ![p] =
             IF get(meta_store, "topic0_mode", Head(l.sigs)) = NoRec
             THEN [l EXCEPT !.pc = "mode_put"]
             ELSE AfterSig(l)]
       /\ UNCHANGED <<meta_store, blob_store>>
       /\ UNCHANGED race_others

(* update_one_topic0_stats: the put of the mode *)
RaceModePut(p) ==
    LET l == clients[p]
        Put(r) ==
            /\ meta_store' = r.meta
            /\ clients' = [clients EXCEPT ![p] = AfterSig(l)]
    IN /\ l.pc = "mode_put"
       /\ Put(meta_put(StartCall(meta_store, blob_store, 0), "topic0_mode", Head(l.sigs),
                       l.mode, CondAny, WriterEpoch))
       /\ UNCHANGED blob_store
       /\ UNCHANGED race_others

(* apply_stream_appends: load_manifest *)
RaceLoadManifest(p) ==
    LET Loaded(lm) ==
            clients' = [clients EXCEPT ![p] =
                           [@ EXCEPT !.pc = "load_tail", !.manifest = lm.manifest,
                                     !.manifest_version = lm.version]]
    IN /\ clients[p].pc = "load_manifest"
       /\ Loaded(load_manifest(meta_store, Head(clients[p].streams)))
       /\ UNCHANGED <<meta_store, blob_store>>
       /\ UNCHANGED race_others

(* apply_stream_appends: load_tail, the inserts and should_seal *)
RaceLoadTail(p) ==
    LET l == clients[p]
        Decided(tail) ==
            clients' = [clients EXCEPT ![p] =
                IF should_seal(tail, l.manifest.last_seal_unix_sec, now)
                THEN [l EXCEPT !.pc = "put_blob",
                               !.chunk = sealed_chunk(tail),
                               !.manifest = sealed_manifest(@, tail, now),
                               !.tail = {}]
                ELSE [l EXCEPT !.pc = "store_manifest", !.tail = tail]]
    IN /\ l.pc = "load_tail"
       /\ Decided(load_tail(meta_store, Head(l.streams))
                  \cup { a[2] : a \in { e \in l.appends : e[1] = Head(l.streams) } })
       /\ UNCHANGED <<meta_store, blob_store>>
       /\ UNCHANGED race_others

(* apply_stream_appends: put_blob of the sealed chunk *)
RacePutBlob(p) ==
    LET l == clients[p]
    IN /\ l.pc = "put_blob"
       /\ blob_store' = blob_put(StartCall(meta_store, blob_store, 0),
                                 chunk_blob_key(Head(l.streams), l.manifest.last_chunk_seq),
                                 l.chunk).blob
       /\ clients' = [clients EXCEPT ![p].pc = "store_manifest"]
       /\ UNCHANGED meta_store
       /\ UNCHANGED race_others

(* apply_stream_appends: store_manifest, CasConflict when the put is not   *)
(* applied                                                                 *)
RaceStoreManifest(p) ==
    LET l == clients[p]
        Stored(r) ==
            /\ meta_store' = r.meta
            /\ clients' = [clients EXCEPT ![p] =
                  IF r.err # "Ok" THEN Returns(l, r.err)
                  ELSE [l EXCEPT !.pc = "store_tail"]]
    IN /\ l.pc = "store_manifest"
       /\ Stored(store_manifest(StartCall(meta_store, blob_store, 0), Head(l.streams),
                                l.manifest, l.manifest_version, WriterEpoch))
       /\ UNCHANGED blob_store
       /\ UNCHANGED race_others

(* apply_stream_appends: store_tail *)
RaceStoreTail(p) ==
    LET l == clients[p]
        Stored(r) ==
            /\ meta_store' = r.meta
            /\ clients' = [clients EXCEPT ![p] = AfterStream(l)]
    IN /\ l.pc = "store_tail"
       /\ Stored(store_tail(StartCall(meta_store, blob_store, 0), Head(l.streams), l.tail,
                            WriterEpoch))
       /\ UNCHANGED blob_store
       /\ UNCHANGED race_others

(* self.store_state(&next, state_version, epoch) and the outcome *)
RaceStoreState(p) ==
    LET l == clients[p]
        Stored(r) ==
            /\ meta_store' = r.meta
            /\ clients' = [clients EXCEPT ![p] = Returns(l, r.err)]
    IN /\ l.pc = "store_state"
       /\ Stored(store_state(StartCall(meta_store, blob_store, 0),
                             next_state(RaceBlock, l.state.next_log_id, WriterEpoch),
                             l.state_version, WriterEpoch))
       /\ UNCHANGED blob_store
       /\ UNCHANGED race_others

InitRace ==
    /\ base \in BaseHeads
    /\ config \in Configs
    /\ meta_store = StoreAfterEmptyBlocks(base)
    /\ blob_store = <<>>
    /\ now = 1
    /\ chain \in { (base + 1 :> payload) : payload \in RacePayloads }
    /\ faults = 0
    /\ maint_runs = 0
    /\ appended = {}
    /\ last = [op |-> "init", block_num |-> 0, parent_hash |-> 0, result |-> "Ok"]
    /\ runtime = RuntimeDefault
    /\ svc_config = DefaultServiceConfig
    /\ adapter = "memory"
    /\ meta_store0 = meta_store
    /\ clients = [p \in Racers |-> RacerStart]
    /\ InitWorkers

NextRace ==
    \/ \E p \in Racers : RaceLoadState(p)
    \/ \E p \in Racers : RaceCheckParent(p)
    \/ \E p \in Racers : RacePutLog(p)
    \/ \E p \in Racers : RacePutBlockMeta(p)
    \/ \E p \in Racers : RacePutBlockHash(p)
    \/ \E p \in Racers : RaceCollect(p)
    \/ \E p \in Racers : RaceStatsGet(p)
    \/ \E p \in Racers : RaceStatsPut(p)
    \/ \E p \in Racers : RaceModeGet(p)
    \/ \E p \in Racers : RaceModeAbsent(p)
    \/ \E p \in Racers : RaceModePut(p)
    \/ \E p \in Racers : RaceLoadManifest(p)
    \/ \E p \in Racers : RaceLoadTail(p)
    \/ \E p \in Racers : RacePutBlob(p)
    \/ \E p \in Racers : RaceStoreManifest(p)
    \/ \E p \in Racers : RaceStoreTail(p)
    \/ \E p \in Racers : RaceStoreState(p)

SpecRace == InitRace /\ [][NextRace]_vars

(* Both calls have returned and both read meta/state as it was at the      *)
(* start                                                                   *)
RaceOver ==
    \A p \in Racers :
        /\ clients[p].pc = "done"
        /\ clients[p].state = load_state(meta_store0).state
        /\ clients[p].state_version = load_state(meta_store0).version

(* C32: of two concurrent ingests of the same next block with the same     *)
(* payload that read the same meta/state version, at most one returns Ok   *)
(* and every other returns CasConflict; afterwards head is the block,      *)
(* next_log_id has advanced by the log count of the block, and the log     *)
(* records are exactly one per log of the block.                           *)
C32_OneConcurrentIngestWins ==
    RaceOver
    => /\ Cardinality({ p \in Racers : clients[p].result = "Ok" }) <= 1
       /\ \A p \in Racers : clients[p].result \in {"Ok", "CasConflict"}
       /\ HeadOf(meta_store) = RaceBlock.block_num
       /\ NextLogIdOf(meta_store) = NextLogIdOf(meta_store0) + Len(RaceBlock.logs)
       /\ DOMAIN meta_store.inner["logs"] =
             { NextLogIdOf(meta_store0) + (i - 1) : i \in 1..Len(RaceBlock.logs) }
       /\ \A i \in 1..Len(RaceBlock.logs) :
             get(meta_store, "logs", NextLogIdOf(meta_store0) + (i - 1)).value =
                 encode_log(RaceBlock.logs[i])

(* One call lost a manifest CAS or the state CAS to the other *)
C32_OneWinsOneConflicts ==
    /\ RaceOver
    /\ RaceBlock.logs # <<>>
    /\ \E p, q \in Racers : clients[p].result = "Ok" /\ clients[q].result = "CasConflict"

-----------------------------------------------------------------------------
(* A GC pass next to a writer whose lease is taken over: set_min_epoch is  *)
(* called on the store while ingest appends and run_gc_once sweeps         *)
(* (gc/worker.rs, api.rs, store/meta.rs)                                   *)

InitFence ==
    /\ base = 0
    /\ config \in { c \in Configs : c.target_entries_per_chunk = 2 }
    /\ InitStores
    /\ runtime = RuntimeDefault
    /\ svc_config = DefaultServiceConfig
    /\ InitCalls

NextFence ==
    \/ SealerCall("ingest")
    \/ SealerLoadManifest("ingest")
    \/ SealerLoadTail("ingest")
    \/ SealerPutBlob("ingest")
    \/ SealerStoreManifest("ingest")
    \/ SealerStoreTail("ingest")
    \/ GcListManifests
    \/ GcListTails
    \/ GcScan
    \/ GcListBlobs
    \/ GcSweepBlob
    \/ GcSweepTail
    \/ SetMinEpoch

SpecFence == InitFence /\ [][NextFence]_vars

(* C37, as stated: GC deletes stale tails under the writer's current fence *)
(* epoch: when the metadata store's min_epoch is higher than the epoch of  *)
(* the service running run_gc_once, the stale-tail deletion is rejected    *)
(* with LeaseLost and no tail record is removed.                           *)
C37_GcDeleteObeysFence ==
    [][(/\ gc.pc = "sweep_tails"
        /\ gc' # gc
        /\ meta_store.min_epoch > WriterEpoch)
       => list_prefix(meta_store', "tails") = list_prefix(meta_store, "tails")]_vars

-----------------------------------------------------------------------------
(* Concurrent requests on one service instance: every load and store of    *)
(* the RuntimeState flags and every lock of its reason is a step of its    *)
(* own (api.rs).  `clients` holds the position and the locals of each      *)
(* task, `runtime` the flags, the error count and the reason.              *)

MaxFlagCalls == 2

Tasks == {1, 2}

GcFailClosedReason == "gc guardrail exceeded; fail-closed"
GcThrottledReason == "gc guardrail exceeded; throttled"
ParentReason == "finality violation or parent mismatch"
BackendDegradedReason == "backend failure threshold exceeded"
BackendThrottledReason == "backend failures throttling"

(* The reasons set_degraded is called with *)
DegradeReasons == {GcFailClosedReason, ParentReason, BackendDegradedReason}

TaskIdle ==
    [pc |-> "idle", ret |-> "idle", reason |-> "", degraded |-> FALSE, throttled |-> FALSE,
     result |-> "Ok", calls |-> 0]

flag_others ==
    <<meta_store, blob_store, config, now, base, chain, faults, maint_runs, appended,
      svc_config, adapter, meta_store0, sealers, gc>>

(* The task moves on; the flags are left alone *)
Moves(t, local) ==
    /\ clients' = [clients EXCEPT ![t] = local]
    /\ UNCHANGED <<runtime, last>>
    /\ UNCHANGED flag_others

(* The task stores into RuntimeState and moves on *)
Stores(t, rt, pc) ==
    /\ runtime' = rt
    /\ clients' = [clients EXCEPT ![t] = [@ EXCEPT !.pc = pc]]
    /\ UNCHANGED last
    /\ UNCHANGED flag_others

(* A task calls run_gc_once, ingest_finalized_block or health *)
FlagRequest(t, req) ==
    /\ clients[t].pc = "idle"
    /\ clients[t].calls < MaxFlagCalls
    /\ Moves(t, [clients[t] EXCEPT
                   !.pc = IF req = "gc" THEN "gc_admit"
                          ELSE IF req = "ingest" THEN "ingest_admit_degraded"
                          ELSE "h_degraded",
                   !.ret = "idle", !.calls = @ + 1])

(* run_gc_once: if self.state.degraded.load() return Err(Degraded) *)
GcAdmit(t) ==
    /\ clients[t].pc = "gc_admit"
    /\ Moves(t, [clients[t] EXCEPT
                   !.pc = IF runtime.degraded THEN "idle" ELSE "gc_guardrail"])

(* run_gc_once: the pass has returned; a Backend error is counted, an      *)
(* exceeded guardrail degrades or throttles, a pass within it unthrottles  *)
GcGuardrail(t, outcome) ==
    /\ clients[t].pc = "gc_guardrail"
    /\ Moves(t, IF outcome = "Backend"
                THEN [clients[t] EXCEPT !.pc = "oe_count", !.ret = "idle"]
                ELSE IF outcome = "exceeded"
                THEN IF svc_config.gc_guardrail_action = "FailClosed"
                     THEN [clients[t] EXCEPT !.pc = "sd_degraded", !.ret = "idle",
                                             !.reason = GcFailClosedReason]
                     ELSE [clients[t] EXCEPT !.pc = "st_throttled", !.ret = "idle",
                                             !.reason = GcThrottledReason]
                ELSE [clients[t] EXCEPT !.pc = "ct_throttled", !.ret = "idle"])

(* ingest_finalized_block: the degraded and the throttled admission loads *)
IngestAdmit(t) ==
    \/ /\ clients[t].pc = "ingest_admit_degraded"
       /\ Moves(t, [clients[t] EXCEPT
                      !.pc = IF runtime.degraded THEN "idle" ELSE "ingest_admit_throttled"])
    \/ /\ clients[t].pc = "ingest_admit_throttled"
       /\ Moves(t, [clients[t] EXCEPT
                      !.pc = IF runtime.throttled THEN "idle" ELSE "ingest_run"])

(* ingest_finalized_block: the engine has returned `res`;                  *)
(* update_backend_state(&res)                                              *)
IngestRun(t, res) ==
    /\ clients[t].pc = "ingest_run"
    /\ Moves(t, [clients[t] EXCEPT
                   !.result = res, !.ret = "ingest_fatal",
                   !.pc = IF res = "Ok" THEN "os_count"
                          ELSE IF res = "Backend" THEN "oe_count"
                          ELSE "ingest_fatal"])

(* ingest_finalized_block: InvalidParent and FinalityViolation degrade *)
IngestFatal(t) ==
    /\ clients[t].pc = "ingest_fatal"
    /\ Moves(t, IF clients[t].result = "InvalidParent"
                THEN [clients[t] EXCEPT !.pc = "sd_degraded", !.ret = "idle",
                                        !.reason = ParentReason]
                ELSE [clients[t] EXCEPT !.pc = "idle"])

(* RuntimeState::set_degraded: degraded.store(true), throttled.store(false) *)
(* and the reason under its lock                                            *)
SetDegraded(t) ==
    \/ /\ clients[t].pc = "sd_degraded"
       /\ Stores(t, [runtime EXCEPT !.degraded = TRUE], "sd_throttled")
    \/ /\ clients[t].pc = "sd_throttled"
       /\ Stores(t, [runtime EXCEPT !.throttled = FALSE], "sd_reason")
    \/ /\ clients[t].pc = "sd_reason"
       /\ Stores(t, [runtime EXCEPT !.reason = clients[t].reason], clients[t].ret)

(* RuntimeState::set_throttled: throttled.store(true) and the reason *)
SetThrottled(t) ==
    \/ /\ clients[t].pc = "st_throttled"
       /\ Stores(t, [runtime EXCEPT !.throttled = TRUE], "st_reason")
    \/ /\ clients[t].pc = "st_reason"
       /\ Stores(t, [runtime EXCEPT !.reason = clients[t].reason], clients[t].ret)

(* RuntimeState::clear_throttle: throttled.store(false), degraded.load(),  *)
(* and the reason cleared if the load returned false                       *)
ClearThrottle(t) ==
    \/ /\ clients[t].pc = "ct_throttled"
       /\ Stores(t, [runtime EXCEPT !.throttled = FALSE], "ct_degraded")
    \/ /\ clients[t].pc = "ct_degraded"
       /\ Moves(t, [clients[t] EXCEPT
                      !.pc = IF runtime.degraded THEN clients[t].ret ELSE "ct_reason"])
    \/ /\ clients[t].pc = "ct_reason"
       /\ Stores(t, [runtime EXCEPT !.reason = ""], clients[t].ret)

(* RuntimeState::on_backend_success: the count reset, throttled.load(),    *)
(* degraded.load(), clear_throttle()                                       *)
OnBackendSuccess(t) ==
    \/ /\ clients[t].pc = "os_count"
       /\ Stores(t, [runtime EXCEPT !.consecutive_backend_errors = 0], "os_throttled")
    \/ /\ clients[t].pc = "os_throttled"
       /\ Moves(t, [clients[t] EXCEPT
                      !.pc = IF runtime.throttled THEN "os_degraded" ELSE clients[t].ret])
    \/ /\ clients[t].pc = "os_degraded"
       /\ Moves(t, [clients[t] EXCEPT
                      !.pc = IF runtime.degraded THEN clients[t].ret ELSE "ct_throttled"])

(* RuntimeState::on_backend_error: fetch_add(1) and the threshold tests *)
OnBackendError(t) ==
    LET count == runtime.consecutive_backend_errors + 1
    IN /\ clients[t].pc = "oe_count"
       /\ runtime' = [runtime EXCEPT !.consecutive_backend_errors = count]
       /\ clients' = [clients EXCEPT ![t] =
                         IF count >= svc_config.backend_error_degraded_after
                         THEN [@ EXCEPT !.pc = "sd_degraded",
                                        !.reason = BackendDegradedReason]
                         ELSE IF count >= svc_config.backend_error_throttle_after
                         THEN [@ EXCEPT !.pc = "st_throttled",
                                        !.reason = BackendThrottledReason]
                         ELSE [@ EXCEPT !.pc = clients[t].ret]]
       /\ UNCHANGED last
       /\ UNCHANGED flag_others

(* health(): degraded.load(), throttled.load(), reason(), and the report *)
Health(t) ==
    \/ /\ clients[t].pc = "h_degraded"
       /\ Moves(t, [clients[t] EXCEPT !.degraded = runtime.degraded, !.pc = "h_throttled"])
    \/ /\ clients[t].pc = "h_throttled"
       /\ Moves(t, [clients[t] EXCEPT !.throttled = runtime.throttled, !.pc = "h_reason"])
    \/ /\ clients[t].pc = "h_reason"
       /\ last' = [op |-> "health",
                   result |-> [healthy |-> ~clients[t].degraded /\ ~clients[t].throttled,
                               degraded |-> clients[t].degraded,
                               message |->
                                   IF clients[t].throttled THEN <<"throttled", runtime.reason>>
                                   ELSE IF clients[t].degraded
                                   THEN <<"degraded", runtime.reason>>
                                   ELSE <<"ok", "">>]]
       /\ clients' = [clients EXCEPT ![t] = [@ EXCEPT !.pc = "idle"]]
       /\ UNCHANGED runtime
       /\ UNCHANGED flag_others

InitFlags ==
    /\ base = 0
    /\ config \in { c \in Configs : c.target_entries_per_chunk = 1 }
    /\ meta_store = StoreAfterEmptyBlocks(base)
    /\ meta_store0 = meta_store
    /\ adapter = "memory"
    /\ InitRun
    /\ InitWorkers
    /\ runtime = [degraded |-> FALSE, throttled |-> FALSE,
                  consecutive_backend_errors |-> 0, reason |-> ""]
    /\ svc_config \in ServiceConfigs
    /\ clients = [t \in Tasks |-> TaskIdle]

NextFlags ==
    \/ \E t \in Tasks, req \in {"gc", "ingest", "health"} : FlagRequest(t, req)
    \/ \E t \in Tasks : GcAdmit(t)
    \/ \E t \in Tasks, outcome \in {"within", "exceeded", "Backend"} : GcGuardrail(t, outcome)
    \/ \E t \in Tasks : IngestAdmit(t)
    \/ \E t \in Tasks, res \in {"Ok", "Backend", "InvalidParent", "InvalidSequence"} :
          IngestRun(t, res)
    \/ \E t \in Tasks : IngestFatal(t)
    \/ \E t \in Tasks : SetDegraded(t)
    \/ \E t \in Tasks : SetThrottled(t)
    \/ \E t \in Tasks : ClearThrottle(t)
    \/ \E t \in Tasks : OnBackendSuccess(t)
    \/ \E t \in Tasks : OnBackendError(t)
    \/ \E t \in Tasks : Health(t)

SpecFlags == InitFlags /\ [][NextFlags]_vars

(* C39, as stated: in every reachable state of the service runtime flags,  *)
(* under any interleaving of concurrent requests on one service instance,  *)
(* degraded and throttled are never both true, and whenever degraded is    *)
(* true health() reports a message that starts with "degraded:" carrying   *)
(* the reason that caused the degradation.                                 *)
C39_DegradedExcludesThrottled ==
    /\ ~(runtime.degraded /\ runtime.throttled)
    /\ (last.op = "health" /\ last.result.degraded)
       => /\ last.result.message[1] = "degraded"
          /\ last.result.message[2] \in DegradeReasons

-----------------------------------------------------------------------------
(* The bounded queue of the workload generator, with its producer task in  *)
(* send and its consumer task in recv at the same time                     *)
(* (log-workload-gen: runtime/bounded_queue.rs, pipeline.rs).  `config`    *)
(* holds the capacity, `runtime` the channel and the two counters of       *)
(* QueueDepth, `clients` the position and the locals of the two tasks.     *)
(* A usize is kept as its residue modulo 2^64, the residues 2^64 - k       *)
(* written -k: usize::MAX is -1.                                           *)

MaxCapacity == 2
MaxItems == 3

(* a > b on usize *)
UGt(a, b) == IF (a < 0) = (b < 0) THEN a > b ELSE a < 0

(* The wrapping fetch_add and fetch_sub of AtomicUsize *)
fetch_add(v, n) == v + n
fetch_sub(v, n) == v - n

(* The items in the channel *)
InFlight == Len(runtime.inner)

queue_others ==
    <<meta_store, blob_store, now, base, chain, faults, maint_runs, appended, last,
      svc_config, adapter, meta_store0, sealers, gc>>

(* bounded(capacity): an empty channel and both counters at 0 *)
bounded(capacity) ==
    [inner |-> <<>>, current |-> 0, max |-> 0, sent |-> 0, largest |-> 0]

(* send: self.inner.send(item).await, which waits for a free slot *)
SendEnqueue ==
    /\ clients.producer.pc = "idle"
    /\ runtime.sent < MaxItems
    /\ InFlight < config.event_queue_capacity
    /\ runtime' = [runtime EXCEPT
                     !.inner = Append(@, runtime.sent + 1),
                     !.sent = @ + 1,
                     !.largest = IF InFlight + 1 > @ THEN InFlight + 1 ELSE @]
    /\ clients' = [clients EXCEPT !.producer.pc = "fetch_add"]
    /\ UNCHANGED config
    /\ UNCHANGED queue_others

(* send: let now = self.depth.current.fetch_add(1) + 1.  The addition of   *)
(* 1 to usize::MAX panics in a build with overflow checks and gives 0 in   *)
(* one without.                                                            *)
SendFetchAdd ==
    /\ clients.producer.pc = "fetch_add"
    /\ runtime' = [runtime EXCEPT !.current = fetch_add(@, 1)]
    /\ \/ clients' = [clients EXCEPT !.producer.pc = "load_max",
                                     !.producer.now = runtime.current + 1]
       \/ /\ runtime.current = -1
          /\ clients' = [clients EXCEPT !.producer.pc = "panicked"]
    /\ UNCHANGED config
    /\ UNCHANGED queue_others

(* send: let mut prev = self.depth.max.load() *)
SendLoadMax ==
    /\ clients.producer.pc = "load_max"
    /\ clients' = [clients EXCEPT !.producer.pc = "compare_exchange",
                                  !.producer.prev = runtime.max]
    /\ UNCHANGED <<runtime, config>>
    /\ UNCHANGED queue_others

(* send: while now > prev { compare_exchange_weak(prev, now) }; the weak   *)
(* exchange may fail with the value it observed although it equals prev    *)
SendCompareExchange ==
    /\ clients.producer.pc = "compare_exchange"
    /\ IF ~UGt(clients.producer.now, clients.producer.prev)
       THEN /\ clients' = [clients EXCEPT !.producer.pc = "idle"]
            /\ UNCHANGED runtime
       ELSE \/ /\ runtime.max = clients.producer.prev
               /\ runtime' = [runtime EXCEPT !.max = clients.producer.now]
               /\ clients' = [clients EXCEPT !.producer.pc = "idle"]
            \/ /\ clients' = [clients EXCEPT !.producer.prev = runtime.max]
               /\ UNCHANGED runtime
    /\ UNCHANGED config
    /\ UNCHANGED queue_others

(* recv: let item = self.inner.recv().await *)
RecvDequeue ==
    /\ clients.consumer.pc = "idle"
    /\ runtime.inner # <<>>
    /\ runtime' = [runtime EXCEPT !.inner = Tail(@)]
    /\ clients' = [clients EXCEPT !.consumer.pc = "fetch_sub"]
    /\ UNCHANGED config
    /\ UNCHANGED queue_others

(* recv: if item.is_some() { self.depth.current.fetch_sub(1) } *)
RecvFetchSub ==
    /\ clients.consumer.pc = "fetch_sub"
    /\ runtime' = [runtime EXCEPT !.current = fetch_sub(@, 1)]
    /\ clients' = [clients EXCEPT !.consumer.pc = "idle"]
    /\ UNCHANGED config
    /\ UNCHANGED queue_others

InitQueue ==
    /\ base = 0
    /\ config \in { [event_queue_capacity |-> c] : c \in 1..MaxCapacity }
    /\ meta_store = StoreAfterEmptyBlocks(base)
    /\ meta_store0 = meta_store
    /\ adapter = "memory"
    /\ InitRun
    /\ InitWorkers
    /\ svc_config = DefaultServiceConfig
    /\ runtime = bounded(config.event_queue_capacity)
    /\ clients = [producer |-> [pc |-> "idle", now |-> 0, prev |-> 0],
                  consumer |-> [pc |-> "idle", now |-> 0, prev |-> 0]]

NextQueue ==
    \/ SendEnqueue
    \/ SendFetchAdd
    \/ SendLoadMax
    \/ SendCompareExchange
    \/ RecvDequeue
    \/ RecvFetchSub

SpecQueue == InitQueue /\ [][NextQueue]_vars

(* C40, as stated: for a bounded queue of capacity c with a producer task  *)
(* calling send and a consumer task calling recv concurrently,             *)
(* depth.current() always equals the number of items sent and not yet      *)
(* received and stays within 0..=c (it never underflows), and depth.max()  *)
(* equals the largest such number and never exceeds c.  The bounds are     *)
(* required in every state, the equalities when neither task is inside     *)
(* send or recv.                                                           *)
C40_DepthTracksTheQueue ==
    /\ runtime.current \in 0..config.event_queue_capacity
    /\ runtime.max \in 0..config.event_queue_capacity
    /\ (clients.producer.pc = "idle" /\ clients.consumer.pc = "idle")
       => /\ runtime.current = InFlight
          /\ runtime.max = runtime.largest

====
